---- MODULE Spec2Model ----
(***************************************************************************)
(* Verification model of conda-recipe-manager.                             *)
(*                                                                         *)
(* The module holds several sub-models, one specification each:            *)
(*   SpecBumper  - ops/version_bumper.py (VersionBumper)                    *)
(*   SpecFetch   - fetcher/artifact_fetcher.py and the fetcher classes      *)
(*   SpecRoundTrip - parser/recipe_reader.py: parse, render, parse again    *)
(*   SpecPatch   - RecipeParser.patch: JSON-Patch operations on a tree      *)
(*   SpecConvert - parser/recipe_parser_convert.py: the v0 to v1 pipeline    *)
(*   SpecReconvert - recipe_parser_convert.py: converting twice             *)
(*   SpecFormat  - parser/v0_recipe_formatter.py: formatting twice           *)
(*   SpecSelector - parser/selector_parser.py: parsing and evaluating         *)
(*   SpecCbc     - parser/cbc_parser.py: merged CBC values and variants       *)
(*   SpecZipKeys - parser/cbc_parser.py: the zip keys of one file              *)
(*   SpecIndent  - parser/v0_recipe_formatter.py: fix_excessive_indentation   *)
(*   SpecVarRefs - parser/recipe_reader.py: get_variable_references           *)
(*   SpecGit     - fetcher/git_artifact_fetcher.py: fetch and its checkout     *)
(* A specification leaves the variables of the other sub-models at their   *)
(* idle values.                                                            *)
(***************************************************************************)
EXTENDS Integers, Sequences, FiniteSets, TLC

VARIABLES
    vbOptions,      \* VersionBumper._options: the set of flags that are set
    vbCntr,         \* VersionBumper._disk_write_cntr
    vbRecipe,       \* VersionBumper._recipe_parser: the recipe fields the bumper reads and writes
    vbDisk,         \* the recipe file on disk: <<>> while untouched, else <<what was last written>>
    vbStdout,       \* number of renderings printed to STDOUT (dry-run mode)
    vbLast,         \* history: the last call made on the bumper and how it ended
    vbCommitRuns,   \* history: how many times commit_changes() has run
    vbExplicit,     \* history: how many of those runs were explicit calls by the user
    vbFailed,       \* history: how many operations ended in a typed error
    vbOps,          \* history: number of calls made so far (bounds the run)
    fsCfg,          \* arguments of the fetcher scope and the network it meets
    fsPhase,        \* where the scope is: "from_recipe", "yielded", "shutdown", "exited", "raised"
    fsI,            \* from_recipe(): index of the source the loop constructs next
    fsFetcher,      \* fetcher id -> temp directory and _successfully_fetched
    fsFuture,       \* source index -> the future submitted for it
    fsArchive,      \* fetcher id -> the _fetch_archive() call made on it and its attempts
    fsOutstanding,  \* history: futures that were not done when the caller left the block
    fsFetchedOk,    \* history: fetcher ids on which a fetch() call completed successfully
    fsHeld,         \* the caller still holds the futures table (and what it refers to)
    fsHow,          \* history: how the caller left the block: "normal" or "exception"
    rtLines,        \* the lines of the recipe text handed to RecipeReader
    rtStage,        \* "input", "parsed", "rendered", "reparsed" or "error"
    rtTree1,        \* result of the first parse: [ok, tree]
    rtText,         \* render() of the first tree, as the lines that are joined
    rtTree2,        \* result of parsing the rendered text
    ptTree,         \* the parser's tree: [map: key -> value or none, lst: list]
    ptModified,     \* RecipeParser._is_modified
    ptLast,         \* history: the last patch and what patch() returned
    ptAdded,        \* history: paths of the `add` patches that succeeded
    ptRemoved,      \* history: paths of the `remove` patches that succeeded
    ptLastWrite,    \* history: per path, the last successful "add"/"remove"
    ptSucceeded,    \* history: number of patches that returned true
    ptOps,          \* history: number of patches applied
    cvIn,           \* what the converter is given: the features of the v0 recipe
    cvPc,           \* position in render_to_v1_recipe_format, "done" or "raised"
    cvSel,          \* _v1_recipe._selector_tbl: the nodes that carry a selector
    cvBare,         \* places of the recipe that hold a `{{ ` without a `$` before it
    cvDeclared,     \* the tree holds /schema_version
    cvOldC,         \* old_comments: paths of the comments before the pipeline
    cvNewC,         \* paths that carry a comment in the tree
    cvPaths,        \* of the commented paths, those the tree contains
    cvFailed,       \* history: the patches that patch() refused
    cvMsgs,         \* _msg_tbl: set of [cat, about]
    ccLines,        \* the lines of the v0 recipe text handed to the converter
    ccStage,        \* "input", "once", "twice" or "error"
    ccOut1,         \* the converted recipe text, as lines
    ccOut2,         \* the text from converting the converted recipe
    fmText,         \* V0RecipeFormatter._lines: the lines of the text
    fmPrev,         \* history: the lines before the last formatting
    fmRuns,         \* history: how often the text was formatted
    slContent,      \* SelectorParser._content, as its words and parentheses
    slPc,           \* "new", "parsed", "raised" or "applied"
    slRoot,         \* SelectorParser._root
    slRaised,       \* the exception the constructor ended with, or "none"
    slEnv,          \* query.build_env_vars of the last does_selector_apply
    slApplies,      \* what the last does_selector_apply returned
    cbFiles,        \* the list cbc_files of the caller
    cbPc,           \* "new", "values", "variants" or "raised"
    cbValues,       \* cbc_values of the last call
    cbZipKeys,      \* zip_keys of the last call
    cbRaised,       \* the exception the last call ended with, or "none"
    cbVariants,     \* what generate_variants returned
    zkGroups,       \* CbcParser._zip_keys of the file that is asked
    zkPc,           \* "new" or "called"
    zkOut,          \* what get_zip_keys returned or raised
    ixLines,        \* V0RecipeFormatter._lines
    ixOld,          \* the lines at the start of the last pass (<<>>: no pass yet)
    ixWork,         \* the lines the last pass had worked out when it ended
    ixGaveUp,       \* the last pass gave up
    ixPasses,       \* passes made, counted up to MaxPasses
    ixPc,           \* "loop", or "done" after the pass that returned False
    vrSchema,       \* RecipeReader._schema_version: "V0" or "V1"
    vrVarsTbl,      \* the names of RecipeReader._vars_tbl
    vrLeaves,       \* the values of the leaves of the tree, in traversal order
    vrVar,          \* the argument of get_variable_references
    vrOut,          \* the returned list of paths
    vrPc,           \* "new" or "called"
    gtTarget,       \* GitArtifactFetcher._git_target: branch, tag and rev
    gtRepoTags,     \* the annotated tags of the repository that is cloned
    gtGitTags,      \* GitArtifactFetcher._git_tags
    gtCheckout,     \* the git checkout that fetch() ran: whether, and of which ref
    gtFetched,      \* GitArtifactFetcher._successfully_fetched
    gtPc            \* "new", "returned" or FetchError

bumperVars == <<vbOptions, vbCntr, vbRecipe, vbDisk, vbStdout, vbLast,
                vbCommitRuns, vbExplicit, vbFailed, vbOps>>

fetchVars == <<fsCfg, fsPhase, fsI, fsFetcher, fsFuture, fsArchive, fsOutstanding,
               fsFetchedOk, fsHeld, fsHow>>

roundTripVars == <<rtLines, rtStage, rtTree1, rtText, rtTree2>>

patchVars == <<ptTree, ptModified, ptLast, ptAdded, ptRemoved, ptLastWrite,
               ptSucceeded, ptOps>>

convertVars == <<cvIn, cvPc, cvSel, cvBare, cvDeclared, cvOldC, cvNewC, cvPaths, cvFailed, cvMsgs>>

reconvertVars == <<ccLines, ccStage, ccOut1, ccOut2>>

formatVars == <<fmText, fmPrev, fmRuns>>

selectorVars == <<slContent, slPc, slRoot, slRaised, slEnv, slApplies>>

cbcVars == <<cbFiles, cbPc, cbValues, cbZipKeys, cbRaised, cbVariants>>

zipKeysVars == <<zkGroups, zkPc, zkOut>>

indentVars == <<ixLines, ixOld, ixWork, ixGaveUp, ixPasses, ixPc>>

varRefVars == <<vrSchema, vrVarsTbl, vrLeaves, vrVar, vrOut, vrPc>>

gitVars == <<gtTarget, gtRepoTags, gtGitTags, gtCheckout, gtFetched, gtPc>>

vars == <<bumperVars, fetchVars, roundTripVars, patchVars, convertVars, reconvertVars, formatVars, selectorVars, cbcVars, zipKeysVars, indentVars, varRefVars, gitVars>>

(***************************************************************************)
(* Bounds of the model.                                                    *)
(***************************************************************************)
MaxOps == 2          \* calls made on one VersionBumper
MaxSources == 1      \* entries of the /source section of a bumped recipe
MaxBuildNum == 1     \* largest build number given or stored at the start
MaxFetchSources == 2 \* entries of the /source section handed to from_recipe()
MaxRetries == 3      \* largest `retries` argument besides DEFAULT_RETRY_LIMIT
MaxLines == 5        \* lines of a recipe text that is parsed and rendered
MaxPatches == 2      \* patches applied to one tree
MaxList == 2         \* members of the list the patches work on

None == "None"

(***************************************************************************)
(* ops/version_bumper.py                                                   *)
(***************************************************************************)
COMMIT_ON_FAILURE == "COMMIT_ON_FAILURE"
DRY_RUN_MODE == "DRY_RUN_MODE"
OMIT_TRAILING_NEW_LINE == "OMIT_TRAILING_NEW_LINE"
VersionBumperOption == {COMMIT_ON_FAILURE, DRY_RUN_MODE, OMIT_TRAILING_NEW_LINE}

DEFAULT_BUILD_NUM_START_POINT == 0

VersionBumperInvalidState == "VersionBumperInvalidState"
VersionBumperPatchError == "VersionBumperPatchError"
FetchError == "FetchError"
CancelledError == "CancelledError"
TypedErrors == {VersionBumperInvalidState, VersionBumperPatchError, FetchError}

Versions == {"1.0", "2.0"}
VERSION_TEMPLATE == "{{ version }}"     \* a /package/version that uses the variable `version`
Urls == {"url_a", "url_b"}
Digests == {"sha_a", "sha_b"}

\* Optional[int]: the empty sequence is None, <<n>> is the integer n.
NoneInt == <<>>
SomeInt(n) == <<n>>

\* The helpers below work on `s`, the fields of the bumper that commit_changes()
\* touches: [cntr, disk, out, runs] (runs counts the calls of commit_changes()).

\* commit_changes(): in dry-run mode print the rendering; otherwise write the
\* rendering to the recipe path and count the write.  `s` also counts the run.
commit_changes_DryRunCounts(opts, recipe, s) ==
    [s EXCEPT !.disk = <<[recipe |-> recipe, omit_nl |-> OMIT_TRAILING_NEW_LINE \in opts]>>,
              !.cntr = @ + 1,
              !.runs = @ + 1]

commit_changes(opts, recipe, s) ==
    IF DRY_RUN_MODE \in opts
    THEN [s EXCEPT !.out = @ + 1, !.runs = @ + 1]
    ELSE [s EXCEPT !.disk = <<[recipe |-> recipe, omit_nl |-> OMIT_TRAILING_NEW_LINE \in opts]>>,
                   !.cntr = @ + 1,
                   !.runs = @ + 1]

\* _commit_on_failure(): commit only when COMMIT_ON_FAILURE is set.
commit_on_failure_Never(opts, recipe, s) == s

commit_on_failure(opts, recipe, s) ==
    IF COMMIT_ON_FAILURE \notin opts THEN s ELSE commit_changes(opts, recipe, s)

\* How an operation ends: the recipe it leaves, the error it raises (None when it
\* returns), and the commit state.
Ok(recipe, s) == [recipe |-> recipe, err |-> None, s |-> s]
Fail(opts, recipe, s, err) ==
    [recipe |-> recipe, err |-> err, s |-> commit_on_failure(opts, recipe, s)]

\* _throw_on_failed_patch(): `patched` is the recipe after the patch, `patch_ok`
\* what RecipeParser.patch() returned.
throw_on_failed_patch(opts, recipe, s, patched, patch_ok) ==
    IF patch_ok THEN Ok(patched, s)
    ELSE Fail(opts, recipe, s, VersionBumperPatchError)

\* _throw_on_failed_fetch()
throw_on_failed_fetch(opts, recipe, s) == Fail(opts, recipe, s, FetchError)

\* update_build_num(build_num).  /build/number is missing, an integer n, a string
\* or a boolean (n is 0 for false and 1 for true: a bool is an int to isinstance).
update_build_num(opts, recipe, s, build_num, patch_ok) ==
    IF build_num # NoneInt /\ build_num[1] < 0
    THEN Fail(opts, recipe, s, VersionBumperInvalidState)
    ELSE IF ~recipe.hasBuild
    THEN Fail(opts, recipe, s, VersionBumperInvalidState)
    ELSE IF build_num = NoneInt /\ recipe.buildNum.kind # "missing"
    THEN IF recipe.buildNum.kind \notin {"int", "bool"}   \* isinstance(og_build_number, int)
         THEN Fail(opts, recipe, s, VersionBumperInvalidState)
         ELSE throw_on_failed_patch(opts, recipe, s,
                  [recipe EXCEPT !.buildNum = [kind |-> "int", n |-> @.n + 1]], patch_ok)
    ELSE throw_on_failed_patch(opts, recipe, s,
             [recipe EXCEPT !.buildNum =
                 [kind |-> "int",
                  n |-> IF build_num = NoneInt THEN DEFAULT_BUILD_NUM_START_POINT
                        ELSE build_num[1]]],
             patch_ok)

\* The text of a field that uses the variable `name`.
Template(name) == "{{ " \o name \o " }}"

\* var_re.search(node.value) of get_variable_references(var), the pattern being
\* "{{.*" + var + ".*}}".  A value of the model is a literal or one expression
\* {{ name }}; the pattern matches when var is a part of name, which is the case
\* for the variable itself and for the other variable my_<var>.
var_re_search(var, value) == value \in {Template(var), Template("my_" \o var)}

\* get_value("/package/version", default=None, sub_vars=True); the variable
\* my_version, where it is used, is set to 1.0
CurrentVersion(recipe) ==
    IF recipe.version = "missing" THEN None
    ELSE IF recipe.version = Template("my_version") THEN "1.0"
    ELSE IF recipe.version = VERSION_TEMPLATE /\ recipe.versionVar # None
    THEN recipe.versionVar
    ELSE recipe.version

\* update_version(target_version)
update_version(opts, recipe, s, target_version, patch_ok) ==
    IF target_version = ""
    THEN Fail(opts, recipe, s, VersionBumperInvalidState)
    ELSE IF target_version = CurrentVersion(recipe)
    THEN Fail(opts, recipe, s, VersionBumperInvalidState)
    ELSE IF recipe.versionVar # None /\ var_re_search("version", recipe.version)
    THEN Ok([recipe EXCEPT !.versionVar = target_version], s)
    ELSE throw_on_failed_patch(opts, recipe, s,
             [recipe EXCEPT !.version = target_version], patch_ok)

\* A resolved or failed future of a FetcherFuturesTable.  Future i of a table
\* belongs to source i of the recipe ("/source" or "/source/<i-1>").
\*   state: "done", or the error that future.result() raises
\*   kind:  the class of the fetcher it resolves to
\*   url:   the corrected URL, or None
\*   sha:   what get_archive_sha256() returns
Futures ==
    [state : {"done"}, kind : {"http"}, url : {None, "url_b"}, sha : {"sha_b"}]
    \cup [state : {"done"}, kind : {"git"}, url : {None}, sha : {None}]
    \cup [state : {FetchError, CancelledError}, kind : {"http"}, url : {None}, sha : {None}]

SeqsUpTo(S, n) == UNION {[1..k -> S] : k \in 0..n}

\* _throw_on_invalid_futures_tbl(): true when the table is rejected.
invalid_futures_tbl(futures_tbl) == Len(futures_tbl) = 0

\* The loop of update_http_urls() from future i on.  patch_fail is the source
\* whose patch() returns False (0: every patch succeeds); the loop ends at the
\* first failed patch, so one index covers every way the patches can fail.
RECURSIVE http_urls_loop(_, _, _, _, _, _)
http_urls_loop(opts, recipe, s, futures_tbl, patch_fail, i) ==
    IF i > Len(futures_tbl) THEN Ok(recipe, s)
    ELSE LET f == futures_tbl[i] IN
         IF f.state # "done" THEN throw_on_failed_fetch(opts, recipe, s)
         ELSE IF f.kind # "http" \/ f.url = None
         THEN http_urls_loop(opts, recipe, s, futures_tbl, patch_fail, i + 1)
         ELSE IF patch_fail = i THEN Fail(opts, recipe, s, VersionBumperPatchError)
         ELSE http_urls_loop(opts, [recipe EXCEPT !.url[i] = f.url], s,
                             futures_tbl, patch_fail, i + 1)

\* update_http_urls(futures_tbl)
update_http_urls(opts, recipe, s, futures_tbl, patch_fail) ==
    IF invalid_futures_tbl(futures_tbl)
    THEN Fail(opts, recipe, s, VersionBumperInvalidState)
    ELSE http_urls_loop(opts, recipe, s, futures_tbl, patch_fail, 1)

\* _RecipeVars.HASH_NAMES & set(list_variables())
hash_vars_set(recipe) == DOMAIN recipe.hashVars

\* "/source/sha256" in get_variable_references(hash_var)
single_sha_uses(recipe, hash_var) ==
    /\ ~recipe.srcIsList
    /\ Len(recipe.sha) >= 1
    /\ var_re_search(hash_var, recipe.sha[1])

\* _update_sha256_check_hash_var(): [early |-> what it returns, res |-> how it ends]
update_sha256_check_hash_var(opts, recipe, s, futures_tbl) ==
    IF Cardinality(hash_vars_set(recipe)) = 1 /\ Len(futures_tbl) = 1
    THEN LET hash_var == CHOOSE h \in hash_vars_set(recipe) : TRUE
             f == futures_tbl[1]
         IN  IF f.state # "done"
             THEN [early |-> TRUE, res |-> throw_on_failed_fetch(opts, recipe, s)]
             ELSE IF f.kind # "http"
             THEN [early |-> FALSE, res |-> Ok(recipe, s)]
             ELSE IF ~single_sha_uses(recipe, hash_var)
             THEN [early |-> FALSE, res |-> Ok(recipe, s)]
             ELSE [early |-> TRUE,
                   res |-> Ok([recipe EXCEPT !.hashVars[hash_var] = f.sha], s)]
    ELSE [early |-> FALSE, res |-> Ok(recipe, s)]

\* The loop of update_sha256() from future i on.
RECURSIVE sha256_loop(_, _, _, _, _, _)
sha256_loop(opts, recipe, s, futures_tbl, patch_fail, i) ==
    IF i > Len(futures_tbl) THEN Ok(recipe, s)
    ELSE LET f == futures_tbl[i] IN
         IF f.state # "done" THEN throw_on_failed_fetch(opts, recipe, s)
         ELSE IF f.kind # "http"
         THEN sha256_loop(opts, recipe, s, futures_tbl, patch_fail, i + 1)
         ELSE IF patch_fail = i THEN Fail(opts, recipe, s, VersionBumperPatchError)
         ELSE sha256_loop(opts, [recipe EXCEPT !.sha[i] = f.sha], s,
                          futures_tbl, patch_fail, i + 1)

\* update_sha256(futures_tbl)
update_sha256(opts, recipe, s, futures_tbl, patch_fail) ==
    IF invalid_futures_tbl(futures_tbl)
    THEN Fail(opts, recipe, s, VersionBumperInvalidState)
    ELSE LET chk == update_sha256_check_hash_var(opts, recipe, s, futures_tbl) IN
         IF chk.early THEN chk.res
         ELSE sha256_loop(opts, recipe, s, futures_tbl, patch_fail, 1)

(***************************************************************************)
(* The VersionBumper as a state machine: one action per public call.       *)
(***************************************************************************)
\* Recipes a bumper can be constructed on: BaseRecipe with one of its sections
\* (/build, /package/version with the variable `version`, /source with the hash
\* variables) varied.  The operations move a recipe on from there.
BaseRecipe ==
    [hasBuild |-> TRUE, buildNum |-> [kind |-> "int", n |-> 0],
     version |-> "1.0", versionVar |-> None,
     hashVars |-> <<>>, srcIsList |-> FALSE, url |-> <<"url_a">>, sha |-> <<"sha_a">>]

BuildSections ==
    { b \in [hasBuild : BOOLEAN,
             buildNum : [kind : {"missing", "int", "str", "bool"}, n : {0, MaxBuildNum}]] :
        /\ (~b.hasBuild => b.buildNum.kind = "missing")
        /\ (b.buildNum.kind \in {"missing", "str"} => b.buildNum.n = 0) }

VersionSections ==
    [version : {"missing", "1.0", VERSION_TEMPLATE, Template("my_version")},
     versionVar : {None, "1.0"}]

SourceSections ==
    { r \in [hashVars : {<<>>, [h \in {"sha256"} |-> "sha_a"],
                         [h \in {"sha256", "hash"} |-> "sha_a"]},
             srcIsList : BOOLEAN,
             url : SeqsUpTo({"url_a"}, MaxSources),
             sha : SeqsUpTo({"sha_a", Template("sha256"), Template("my_sha256")},
                            MaxSources)] :
        /\ \A i \in 2..Len(r.sha) : r.sha[i] = "sha_a"
        /\ Len(r.url) = Len(r.sha)
        /\ (~r.srcIsList => Len(r.url) <= 1)
        /\ (r.srcIsList => Len(r.url) >= 1)
        /\ \A i \in 1..Len(r.sha) :
              r.sha[i] = Template("sha256") => "sha256" \in DOMAIN r.hashVars }

InitRecipes ==
    { [BaseRecipe EXCEPT !.hasBuild = b.hasBuild, !.buildNum = b.buildNum] :
        b \in BuildSections }
    \cup { [BaseRecipe EXCEPT !.version = v.version, !.versionVar = v.versionVar] :
        v \in VersionSections }
    \cup { [BaseRecipe EXCEPT !.hashVars = r.hashVars, !.srcIsList = r.srcIsList,
                              !.url = r.url, !.sha = r.sha] :
        r \in SourceSections }

\* The fetcher sub-model at rest.
IdleFetch ==
    /\ fsCfg = <<>>
    /\ fsPhase = "idle"
    /\ fsI = 0
    /\ fsFetcher = <<>>
    /\ fsFuture = <<>>
    /\ fsArchive = <<>>
    /\ fsOutstanding = {}
    /\ fsFetchedOk = {}
    /\ fsHeld = FALSE
    /\ fsHow = "none"

\* The round-trip sub-model at rest.
IdleRoundTrip ==
    /\ rtLines = <<>>
    /\ rtStage = "idle"
    /\ rtTree1 = <<>>
    /\ rtText = <<>>
    /\ rtTree2 = <<>>

\* The patch sub-model at rest.
IdlePatch ==
    /\ ptTree = <<>>
    /\ ptModified = FALSE
    /\ ptLast = <<>>
    /\ ptAdded = {}
    /\ ptRemoved = {}
    /\ ptLastWrite = <<>>
    /\ ptSucceeded = 0
    /\ ptOps = 0

\* The converter sub-model at rest.
IdleConvert ==
    /\ cvIn = <<>>
    /\ cvPc = "idle"
    /\ cvSel = {}
    /\ cvBare = {}
    /\ cvDeclared = FALSE
    /\ cvOldC = {}
    /\ cvNewC = {}
    /\ cvPaths = {}
    /\ cvFailed = {}
    /\ cvMsgs = {}

\* The convert-twice sub-model at rest.
IdleReconvert ==
    /\ ccLines = <<>>
    /\ ccStage = "idle"
    /\ ccOut1 = <<>>
    /\ ccOut2 = <<>>

\* The formatter sub-model at rest.
IdleFormat ==
    /\ fmText = <<>>
    /\ fmPrev = <<>>
    /\ fmRuns = -1

\* The selector sub-model at rest.
IdleSelector ==
    /\ slContent = <<>>
    /\ slPc = "idle"
    /\ slRoot = <<>>
    /\ slRaised = "none"
    /\ slEnv = {}
    /\ slApplies = FALSE

\* The CBC sub-model at rest.
IdleCbc ==
    /\ cbFiles = <<>>
    /\ cbPc = "idle"
    /\ cbValues = <<>>
    /\ cbZipKeys = <<>>
    /\ cbRaised = "none"
    /\ cbVariants = <<>>

\* The zip-keys sub-model at rest.
IdleZipKeys ==
    /\ zkGroups = <<>>
    /\ zkPc = "idle"
    /\ zkOut = <<>>

\* The indentation sub-model at rest.
IdleIndent ==
    /\ ixLines = <<>>
    /\ ixOld = <<>>
    /\ ixWork = <<>>
    /\ ixGaveUp = FALSE
    /\ ixPasses = 0
    /\ ixPc = "idle"

\* The variable-reference sub-model at rest.
IdleVarRefs ==
    /\ vrSchema = "idle"
    /\ vrVarsTbl = {}
    /\ vrLeaves = <<>>
    /\ vrVar = ""
    /\ vrOut = <<>>
    /\ vrPc = "idle"

\* The git fetcher sub-model at rest.
IdleGit ==
    /\ gtTarget = <<>>
    /\ gtRepoTags = {}
    /\ gtGitTags = {}
    /\ gtCheckout = <<>>
    /\ gtFetched = FALSE
    /\ gtPc = "idle"

BumperState == [cntr |-> vbCntr, disk |-> vbDisk, out |-> vbStdout, runs |-> 0]

\* A call of an operation that ended as `r`.
EndOp(name, r) ==
    /\ vbRecipe' = r.recipe
    /\ vbCntr' = r.s.cntr
    /\ vbDisk' = r.s.disk
    /\ vbStdout' = r.s.out
    /\ vbCommitRuns' = vbCommitRuns + r.s.runs
    /\ vbFailed' = vbFailed + (IF r.err \in TypedErrors THEN 1 ELSE 0)
    /\ vbLast' = [op |-> name, err |-> r.err, commits |-> r.s.runs, before |-> vbCntr]
    /\ vbOps' = vbOps + 1
    /\ UNCHANGED <<vbOptions, vbExplicit>>
    /\ UNCHANGED <<fetchVars, roundTripVars, patchVars, convertVars, reconvertVars, formatVars, selectorVars, cbcVars, zipKeysVars, indentVars, varRefVars, gitVars>>

InitBumper ==
    /\ vbOptions \in SUBSET VersionBumperOption
    /\ vbRecipe \in InitRecipes
    /\ vbCntr = 0
    /\ vbDisk = <<>>
    /\ vbStdout = 0
    /\ vbLast = [op |-> "init", err |-> None, commits |-> 0, before |-> 0]
    /\ vbCommitRuns = 0
    /\ vbExplicit = 0
    /\ vbFailed = 0
    /\ vbOps = 0
    /\ IdleFetch
    /\ IdleRoundTrip
    /\ IdlePatch
    /\ IdleConvert
    /\ IdleReconvert
    /\ IdleFormat
    /\ IdleSelector
    /\ IdleCbc
    /\ IdleZipKeys
    /\ IdleIndent
    /\ IdleVarRefs
    /\ IdleGit

CommitChanges ==
    /\ vbOps < MaxOps
    /\ LET s == commit_changes(vbOptions, vbRecipe, BumperState) IN
         /\ vbCntr' = s.cntr
         /\ vbDisk' = s.disk
         /\ vbStdout' = s.out
         /\ vbCommitRuns' = vbCommitRuns + s.runs
         /\ vbLast' = [op |-> "commit_changes", err |-> None, commits |-> s.runs,
                       before |-> vbCntr]
    /\ vbExplicit' = vbExplicit + 1
    /\ vbOps' = vbOps + 1
    /\ UNCHANGED <<vbOptions, vbRecipe, vbFailed>>
    /\ UNCHANGED <<fetchVars, roundTripVars, patchVars, convertVars, reconvertVars, formatVars, selectorVars, cbcVars, zipKeysVars, indentVars, varRefVars, gitVars>>

UpdateBuildNum ==
    /\ vbOps < MaxOps
    /\ \E build_num \in {NoneInt} \cup {SomeInt(n) : n \in (-1)..MaxBuildNum},
          patch_ok \in BOOLEAN :
          EndOp("update_build_num",
                update_build_num(vbOptions, vbRecipe, BumperState, build_num, patch_ok))

UpdateVersion ==
    /\ vbOps < MaxOps
    /\ \E target_version \in {""} \cup Versions, patch_ok \in BOOLEAN :
          EndOp("update_version",
                update_version(vbOptions, vbRecipe, BumperState, target_version, patch_ok))

UpdateHttpUrls ==
    /\ vbOps < MaxOps
    /\ \E futures_tbl \in SeqsUpTo(Futures, Len(vbRecipe.url)) :
         \E patch_fail \in 0..Len(futures_tbl) :
          EndOp("update_http_urls",
                update_http_urls(vbOptions, vbRecipe, BumperState, futures_tbl, patch_fail))

UpdateSha256 ==
    /\ vbOps < MaxOps
    /\ \E futures_tbl \in SeqsUpTo(Futures, Len(vbRecipe.url)) :
         \E patch_fail \in 0..Len(futures_tbl) :
          EndOp("update_sha256",
                update_sha256(vbOptions, vbRecipe, BumperState, futures_tbl, patch_fail))

NextBumper ==
    \/ CommitChanges
    \/ UpdateBuildNum
    \/ UpdateVersion
    \/ UpdateHttpUrls
    \/ UpdateSha256

SpecBumper == InitBumper /\ [][NextBumper]_vars

(***************************************************************************)
(* Claims about the VersionBumper (SpecBumper).                            *)
(***************************************************************************)
\* C1: with COMMIT_ON_FAILURE set and DRY_RUN_MODE not set, every operation that
\* ends in a typed error (VersionBumperInvalidState, VersionBumperPatchError,
\* FetchError) has run commit_changes() exactly once, so the disk-write counter is
\* exactly one more than before the call and the file holds the recipe as the
\* failed operation left it.
C1_FailureCommitsOnce ==
    ( /\ COMMIT_ON_FAILURE \in vbOptions
      /\ DRY_RUN_MODE \notin vbOptions
      /\ vbLast.err \in TypedErrors )
    => ( /\ vbLast.commits = 1
         /\ vbCntr = vbLast.before + 1
         /\ vbDisk # <<>>
         /\ vbDisk[1].recipe = vbRecipe )

\* C1 witness: a patch failed in update_http_urls() of a bumper that commits on
\* failure and writes to disk.
C1_Witness ==
    /\ COMMIT_ON_FAILURE \in vbOptions
    /\ DRY_RUN_MODE \notin vbOptions
    /\ vbLast.op = "update_http_urls"
    /\ vbLast.err = VersionBumperPatchError

\* C2: the disk-write counter equals the number of runs of commit_changes()
\* outside dry-run mode, which are the explicit calls plus one per failed
\* operation when COMMIT_ON_FAILURE is set; it is 0 in dry-run mode, and 0 when
\* COMMIT_ON_FAILURE is unset and commit_changes() was never called; a counted
\* run has written the file.
C2_CounterCountsWrites ==
    /\ vbCommitRuns = vbExplicit
                      + (IF COMMIT_ON_FAILURE \in vbOptions THEN vbFailed ELSE 0)
    /\ vbCntr = (IF DRY_RUN_MODE \in vbOptions THEN 0 ELSE vbCommitRuns)
    /\ (DRY_RUN_MODE \in vbOptions => vbCntr = 0 /\ vbDisk = <<>>)
    /\ (COMMIT_ON_FAILURE \notin vbOptions /\ vbExplicit = 0 => vbCntr = 0)
    /\ (vbCntr > 0 <=> vbDisk # <<>>)

\* C2 witness: one explicit commit and one failed operation, both written.
C2_Witness ==
    /\ vbExplicit = 1
    /\ vbFailed = 1
    /\ vbCntr = 2

(***************************************************************************)
(* fetcher/base_artifact_fetcher.py, fetcher/git_artifact_fetcher.py and   *)
(* fetcher/artifact_fetcher.py                                             *)
(*                                                                         *)
(* A /source entry is one of: "pypi" (a `url` matching _Regex.PYPI_URL),   *)
(* "http" (any other `url`), "git" (a `git_url` and no `url`) and          *)
(* "unsupported" (neither key).  With N sources, fetcher i (1..N) is the   *)
(* fetcher from_recipe() builds for source i and fetcher N+i is the        *)
(* HttpArtifactFetcher that _fetch_corrected_archive() builds for the      *)
(* corrected URL of source i.                                              *)
(***************************************************************************)
DEFAULT_RETRY_LIMIT == 5
DEFAULT_RETRY_INTERVAL == 10

FetchRequiredError == "FetchRequiredError"
FetchUnsupportedError == "FetchUnsupportedError"

SourceKinds == {"pypi", "http", "git", "unsupported"}
CORRECTED_URL == "https://pypi.org/packages/source/n/name/filename"

\* A fetcher that has not been constructed.
NoFetcher == [dir |-> "none", fetched |-> FALSE, cleaned |-> FALSE]

\* BaseArtifactFetcher.__init__(): the temporary directory is created and the flag cleared.
BaseArtifactFetcher == [dir |-> "exists", fetched |-> FALSE, cleaned |-> FALSE]

cleanup_KeepsFlag(f) == [f EXCEPT !.dir = "removed"]
\* BaseArtifactFetcher.cleanup(), which __exit__() calls.
cleanup(f) == [f EXCEPT !.dir = "removed", !.fetched = FALSE]

\* BaseArtifactFetcher.fetched()
fetched(f) == f.fetched

\* BaseArtifactFetcher._fetch_guard(): returns, or raises FetchRequiredError.
fetch_guard(f) == IF f.fetched THEN "ok" ELSE FetchRequiredError

\* GitArtifactFetcher.get_path_to_source_code() and get_repo_tags(): what the call
\* ends in, "ok" standing for the value returned.
get_path_to_source_code(f) == fetch_guard(f)
get_repo_tags(f) == fetch_guard(f)

\* GitArtifactFetcher.fetch(): `ok` says whether the clone and the checkout worked;
\* when they did not, FetchError leaves the method before the flag is set.
fetch(f, ok) == IF ok THEN [f EXCEPT !.fetched = TRUE] ELSE f

\* HttpArtifactFetcher.fetch(): on success fetched() is true.
http_fetch(f, ok) == IF ok THEN [f EXCEPT !.fetched = TRUE] ELSE f

fetch_of_kind(kind, f, ok) == IF kind = "git" THEN fetch(f, ok) ELSE http_fetch(f, ok)

NumSources == Len(fsCfg.sources)
SourceIds == 1..NumSources
FetcherIds == 1..(2 * NumSources)
CorrectedId(i) == NumSources + i
KindOf(id) == IF id \in SourceIds THEN fsCfg.sources[id] ELSE "pypi"

exit_stack_close_Leaks(fetchers, entered) == fetchers
\* ExitStack.__exit__() in from_recipe(): every fetcher that entered the stack is
\* cleaned up.
exit_stack_close(fetchers, entered) ==
    [id \in DOMAIN fetchers |->
        IF id \in entered THEN cleanup(fetchers[id]) ELSE fetchers[id]]

\* The fetchers that have entered the ExitStack of from_recipe().
Entered == {id \in SourceIds : fsFetcher[id].dir # "none"}

sleep_after_Constant(retry_id, retries, retry_interval) ==
    IF retry_id < retries THEN retry_interval ELSE 0
\* _fetch_archive(): the time slept after attempt `retry_id` failed (0: no sleep).
sleep_after(retry_id, retries, retry_interval) ==
    IF retry_id < retries THEN retry_id * retry_interval ELSE 0

\* _fetch_archive(): the loop from attempt `retry_id` on.  `fails` is the number of
\* attempts the network lets fail before one succeeds.
RECURSIVE fetch_archive_loop(_, _, _, _, _)
fetch_archive_loop(retry_id, retries, retry_interval, fails, log) ==
    IF retry_id > retries
    THEN [state |-> "raised", retries |-> retries, log |-> log]
    ELSE IF retry_id > fails
         THEN [state |-> "returned", retries |-> retries,
               log |-> Append(log, [retry_id |-> retry_id, ok |-> TRUE, slept |-> 0])]
         ELSE fetch_archive_loop(retry_id + 1, retries, retry_interval, fails,
                  Append(log, [retry_id |-> retry_id, ok |-> FALSE,
                               slept |-> sleep_after(retry_id, retries, retry_interval)]))

\* _fetch_archive(fetcher, retry_interval, retries)
fetch_archive(retry_interval, retries, fails) ==
    fetch_archive_loop(1, retries, retry_interval, fails, <<>>)

NoArchive == [state |-> "none", retries |-> 0, log |-> <<>>]

original_retries_Half(retries) == retries \div 2
\* _fetch_corrected_archive(): the share of the budget spent on the original URL
original_retries(retries) ==
    IF retries % 2 # 0 THEN retries \div 2 + 1 ELSE retries \div 2

\* _fetch_corrected_archive(): the share of the budget spent on the corrected URL
corrected_retries(retries) == retries \div 2

\* What the network does to the corrected URL: [api |-> the PyPI API answers,
\* fails |-> attempts on the corrected URL that fail before one succeeds].
CorrectedUp == [api |-> TRUE, fails |-> 0]

\* A future: pending, done with (fetcher, url), or holding FetchError.
NoFuture == [state |-> "none", fetcher |-> 0, url |-> None]
PendingFuture == [state |-> "pending", fetcher |-> 0, url |-> None]
DoneFuture(id, url) == [state |-> "done", fetcher |-> id, url |-> url]
FailedFuture == [state |-> FetchError, fetcher |-> 0, url |-> None]

\* _fetch_corrected_archive(recipe_reader, fetcher, retry_interval, retries) run for
\* source i: the _fetch_archive() call on the fetcher, the one on the corrected
\* fetcher, whether the corrected fetcher was built, and what the future holds.
fetch_corrected_archive(i, kind, retry_interval, retries, fails, net) ==
    IF kind # "pypi"
    THEN LET a == fetch_archive(retry_interval, retries, fails) IN
         [orig |-> a, corr |-> NoArchive, built |-> FALSE,
          future |-> IF a.state = "returned" THEN DoneFuture(i, None) ELSE FailedFuture]
    ELSE LET a == fetch_archive(retry_interval, original_retries(retries), fails) IN
         IF a.state = "returned"
         THEN [orig |-> a, corr |-> NoArchive, built |-> FALSE,
               future |-> DoneFuture(i, None)]
         ELSE IF ~net.api
         THEN [orig |-> a, corr |-> NoArchive, built |-> FALSE, future |-> FailedFuture]
         ELSE LET c == fetch_archive(retry_interval, corrected_retries(retries),
                                     net.fails) IN
              [orig |-> a, corr |-> c, built |-> TRUE,
               future |-> IF c.state = "returned"
                          THEN DoneFuture(CorrectedId(i), CORRECTED_URL)
                          ELSE FailedFuture]

\* The VersionBumper sub-model at rest.
IdleBumper ==
    /\ vbOptions = {}
    /\ vbRecipe = <<>>
    /\ vbCntr = 0
    /\ vbDisk = <<>>
    /\ vbStdout = 0
    /\ vbLast = <<>>
    /\ vbCommitRuns = 0
    /\ vbExplicit = 0
    /\ vbFailed = 0
    /\ vbOps = 0

RetryChoices == 0..MaxRetries \cup {DEFAULT_RETRY_LIMIT}
IntervalChoices == {DEFAULT_RETRY_INTERVAL}
CorrectedNets == [api : {TRUE}, fails : {0, 1, DEFAULT_RETRY_LIMIT}]
                    \cup {[api |-> FALSE, fails |-> 0]}
Modes == {"from_recipe", "fetch_all", "fetch_all_corrected"}

\* The scopes the model opens.  Arguments that the chosen function does not read
\* are held at one value.
FetchConfigs ==
    { c \in [sources : SeqsUpTo(SourceKinds, MaxFetchSources),
             ignore_unsupported : BOOLEAN,
             mode : Modes,
             retries : RetryChoices,
             retry_interval : IntervalChoices,
             fails : 0..DEFAULT_RETRY_LIMIT,
             net : CorrectedNets] :
        /\ (c.ignore_unsupported => \E k \in DOMAIN c.sources : c.sources[k] = "unsupported")
        /\ c.fails <= c.retries
        /\ (c.mode = "from_recipe" =>
                /\ c.retries = DEFAULT_RETRY_LIMIT
                /\ c.fails = 0)
        /\ (c.net # CorrectedUp =>
                /\ c.mode = "fetch_all_corrected"
                /\ \E k \in DOMAIN c.sources : c.sources[k] = "pypi") }

InitFetch ==
    /\ fsCfg \in FetchConfigs
    /\ fsPhase = "from_recipe"
    /\ fsI = 1
    /\ fsFetcher = [id \in FetcherIds |-> NoFetcher]
    /\ fsFuture = [i \in SourceIds |-> NoFuture]
    /\ fsArchive = [id \in FetcherIds |-> NoArchive]
    /\ fsOutstanding = {}
    /\ fsFetchedOk = {}
    /\ fsHeld = FALSE
    /\ fsHow = "none"
    /\ IdleBumper
    /\ IdleRoundTrip
    /\ IdlePatch
    /\ IdleConvert
    /\ IdleReconvert
    /\ IdleFormat
    /\ IdleSelector
    /\ IdleCbc
    /\ IdleZipKeys
    /\ IdleIndent
    /\ IdleVarRefs
    /\ IdleGit

\* from_recipe(): the loop body for a source with a `url` or a `git_url`.
ConstructSource ==
    /\ fsPhase = "from_recipe"
    /\ fsI <= NumSources
    /\ fsCfg.sources[fsI] # "unsupported"
    /\ fsFetcher' = [fsFetcher EXCEPT ![fsI] = BaseArtifactFetcher]
    /\ fsI' = fsI + 1
    /\ UNCHANGED <<fsCfg, fsPhase, fsFuture, fsArchive, fsOutstanding, fsFetchedOk,
                   fsHeld, fsHow>>
    /\ UNCHANGED <<bumperVars, roundTripVars, patchVars, convertVars, reconvertVars, formatVars, selectorVars, cbcVars, zipKeysVars, indentVars, varRefVars, gitVars>>

\* from_recipe(): the loop body for a source with neither key, ignore_unsupported set.
SkipUnsupported ==
    /\ fsPhase = "from_recipe"
    /\ fsI <= NumSources
    /\ fsCfg.sources[fsI] = "unsupported"
    /\ fsCfg.ignore_unsupported
    /\ fsI' = fsI + 1
    /\ UNCHANGED <<fsCfg, fsPhase, fsFetcher, fsFuture, fsArchive, fsOutstanding,
                   fsFetchedOk, fsHeld, fsHow>>
    /\ UNCHANGED <<bumperVars, roundTripVars, patchVars, convertVars, reconvertVars, formatVars, selectorVars, cbcVars, zipKeysVars, indentVars, varRefVars, gitVars>>

\* from_recipe(): FetchUnsupportedError leaves the loop through the ExitStack.
RaiseUnsupported ==
    /\ fsPhase = "from_recipe"
    /\ fsI <= NumSources
    /\ fsCfg.sources[fsI] = "unsupported"
    /\ ~fsCfg.ignore_unsupported
    /\ fsFetcher' = exit_stack_close(fsFetcher, Entered)
    /\ fsPhase' = "raised"
    /\ UNCHANGED <<fsCfg, fsI, fsFuture, fsArchive, fsOutstanding, fsFetchedOk,
                   fsHeld, fsHow>>
    /\ UNCHANGED <<bumperVars, roundTripVars, patchVars, convertVars, reconvertVars, formatVars, selectorVars, cbcVars, zipKeysVars, indentVars, varRefVars, gitVars>>

\* from_recipe() yields the table; fetch_all_[corrected_]artifacts_with_retry()
\* submits one task per fetcher and yields the futures.
Yield ==
    /\ fsPhase = "from_recipe"
    /\ fsI > NumSources
    /\ fsPhase' = "yielded"
    /\ fsFuture' = [i \in SourceIds |->
                       IF fsCfg.mode # "from_recipe" /\ fsFetcher[i].dir # "none"
                       THEN PendingFuture ELSE NoFuture]
    /\ fsHeld' = TRUE
    /\ UNCHANGED <<fsCfg, fsI, fsFetcher, fsArchive, fsOutstanding, fsFetchedOk, fsHow>>
    /\ UNCHANGED <<bumperVars, roundTripVars, patchVars, convertVars, reconvertVars, formatVars, selectorVars, cbcVars, zipKeysVars, indentVars, varRefVars, gitVars>>

\* A pool thread runs _fetch_archive() for source i.
RunFetchArchive ==
    /\ fsCfg.mode = "fetch_all"
    /\ fsPhase \in {"yielded", "shutdown"}
    /\ \E i \in SourceIds :
         /\ fsFuture[i].state = "pending"
         /\ LET a == fetch_archive(fsCfg.retry_interval, fsCfg.retries, fsCfg.fails)
                ok == a.state = "returned" IN
              /\ fsArchive' = [fsArchive EXCEPT ![i] = a]
              /\ fsFetcher' = [fsFetcher EXCEPT ![i] = fetch_of_kind(KindOf(i), @, ok)]
              /\ fsFetchedOk' = IF ok THEN fsFetchedOk \cup {i} ELSE fsFetchedOk
              /\ fsFuture' = [fsFuture EXCEPT
                                 ![i] = IF ok THEN DoneFuture(i, None) ELSE FailedFuture]
    /\ UNCHANGED <<fsCfg, fsPhase, fsI, fsOutstanding, fsHeld, fsHow>>
    /\ UNCHANGED <<bumperVars, roundTripVars, patchVars, convertVars, reconvertVars, formatVars, selectorVars, cbcVars, zipKeysVars, indentVars, varRefVars, gitVars>>

\* A pool thread runs _fetch_corrected_archive() for source i.
RunFetchCorrectedArchive ==
    /\ fsCfg.mode = "fetch_all_corrected"
    /\ fsPhase \in {"yielded", "shutdown"}
    /\ \E i \in SourceIds :
         /\ fsFuture[i].state = "pending"
         /\ LET r == fetch_corrected_archive(i, KindOf(i), fsCfg.retry_interval,
                                             fsCfg.retries, fsCfg.fails, fsCfg.net)
                ok == r.orig.state = "returned"
                cok == r.corr.state = "returned"
                c == CorrectedId(i) IN
              /\ fsArchive' = [fsArchive EXCEPT ![i] = r.orig, ![c] = r.corr]
              /\ fsFetcher' = [fsFetcher EXCEPT
                                  ![i] = fetch_of_kind(KindOf(i), @, ok),
                                  ![c] = IF r.built
                                         THEN http_fetch(BaseArtifactFetcher, cok)
                                         ELSE @]
              /\ fsFetchedOk' = fsFetchedOk \cup (IF ok THEN {i} ELSE {})
                                            \cup (IF cok THEN {c} ELSE {})
              /\ fsFuture' = [fsFuture EXCEPT ![i] = r.future]
    /\ UNCHANGED <<fsCfg, fsPhase, fsI, fsOutstanding, fsHeld, fsHow>>
    /\ UNCHANGED <<bumperVars, roundTripVars, patchVars, convertVars, reconvertVars, formatVars, selectorVars, cbcVars, zipKeysVars, indentVars, varRefVars, gitVars>>

\* The caller's block calls fetch() on a fetcher of the table.
CallerFetch ==
    /\ fsCfg.mode = "from_recipe"
    /\ fsPhase = "yielded"
    /\ \E i \in SourceIds, ok \in BOOLEAN :
         /\ fsFetcher[i].dir = "exists"
         /\ fsFetcher' = [fsFetcher EXCEPT ![i] = fetch_of_kind(KindOf(i), @, ok)]
         /\ fsFetchedOk' = IF ok THEN fsFetchedOk \cup {i} ELSE fsFetchedOk
    /\ UNCHANGED <<fsCfg, fsPhase, fsI, fsFuture, fsArchive, fsOutstanding, fsHeld, fsHow>>
    /\ UNCHANGED <<bumperVars, roundTripVars, patchVars, convertVars, reconvertVars, formatVars, selectorVars, cbcVars, zipKeysVars, indentVars, varRefVars, gitVars>>

\* The caller's block calls cleanup() on a fetcher of the table.
CallerCleanup ==
    /\ fsCfg.mode = "from_recipe"
    /\ fsPhase = "yielded"
    /\ \E i \in SourceIds :
         /\ fsFetcher[i].dir = "exists"
         /\ fsFetcher' = [fsFetcher EXCEPT ![i] = [cleanup(@) EXCEPT !.cleaned = TRUE]]
    /\ UNCHANGED <<fsCfg, fsPhase, fsI, fsFuture, fsArchive, fsOutstanding, fsFetchedOk,
                   fsHeld, fsHow>>
    /\ UNCHANGED <<bumperVars, roundTripVars, patchVars, convertVars, reconvertVars, formatVars, selectorVars, cbcVars, zipKeysVars, indentVars, varRefVars, gitVars>>

\* The caller's block ends, normally or with an exception.  Under from_recipe() the
\* ExitStack closes at once; under the fetch_all functions the executor's __exit__()
\* runs first, which is shutdown(wait=True).
LeaveBlock ==
    /\ fsPhase = "yielded"
    /\ \E how \in {"normal", "exception"} : fsHow' = how
    /\ IF fsCfg.mode = "from_recipe"
       THEN /\ fsFetcher' = exit_stack_close(fsFetcher, Entered)
            /\ fsPhase' = "exited"
            /\ UNCHANGED fsOutstanding
       ELSE /\ fsPhase' = "shutdown"
            /\ fsOutstanding' = {i \in SourceIds : fsFuture[i].state = "pending"}
            /\ UNCHANGED fsFetcher
    /\ UNCHANGED <<fsCfg, fsI, fsFuture, fsArchive, fsFetchedOk, fsHeld>>
    /\ UNCHANGED <<bumperVars, roundTripVars, patchVars, convertVars, reconvertVars, formatVars, selectorVars, cbcVars, zipKeysVars, indentVars, varRefVars, gitVars>>

ShutdownDone_NoWait ==
    /\ fsPhase = "shutdown"
    /\ fsFetcher' = exit_stack_close(fsFetcher, Entered)
    /\ fsPhase' = "exited"
    /\ UNCHANGED <<fsCfg, fsI, fsFuture, fsArchive, fsOutstanding, fsFetchedOk, fsHeld,
                   fsHow>>
    /\ UNCHANGED <<bumperVars, roundTripVars, patchVars, convertVars, reconvertVars, formatVars, selectorVars, cbcVars, zipKeysVars, indentVars, varRefVars, gitVars>>
\* shutdown(wait=True) returns once every submitted task has run; then the
\* ExitStack of from_recipe() closes.
ShutdownDone ==
    /\ fsPhase = "shutdown"
    /\ \A i \in SourceIds : fsFuture[i].state # "pending"
    /\ fsFetcher' = exit_stack_close(fsFetcher, Entered)
    /\ fsPhase' = "exited"
    /\ UNCHANGED <<fsCfg, fsI, fsFuture, fsArchive, fsOutstanding, fsFetchedOk, fsHeld,
                   fsHow>>
    /\ UNCHANGED <<bumperVars, roundTripVars, patchVars, convertVars, reconvertVars, formatVars, selectorVars, cbcVars, zipKeysVars, indentVars, varRefVars, gitVars>>

\* After the scope the caller lets go of the futures table.  A corrected fetcher
\* is referenced by its future only, so the object is collected now and its
\* TemporaryDirectory is finalized.
ReleaseFutures ==
    /\ fsCfg.mode # "from_recipe"
    /\ fsPhase = "exited"
    /\ fsHeld
    /\ fsHeld' = FALSE
    /\ fsFetcher' = [id \in FetcherIds |->
                       IF id \notin SourceIds /\ fsFetcher[id].dir = "exists"
                       THEN [fsFetcher[id] EXCEPT !.dir = "removed", !.fetched = FALSE]
                       ELSE fsFetcher[id]]
    /\ UNCHANGED <<fsCfg, fsPhase, fsI, fsFuture, fsArchive, fsOutstanding, fsFetchedOk,
                   fsHow>>
    /\ UNCHANGED <<bumperVars, roundTripVars, patchVars, convertVars, reconvertVars, formatVars, selectorVars, cbcVars, zipKeysVars, indentVars, varRefVars, gitVars>>

NextFetch ==
    \/ ConstructSource
    \/ SkipUnsupported
    \/ RaiseUnsupported
    \/ Yield
    \/ RunFetchArchive
    \/ RunFetchCorrectedArchive
    \/ CallerFetch
    \/ CallerCleanup
    \/ LeaveBlock
    \/ ShutdownDone
    \/ ReleaseFutures

SpecFetch == InitFetch /\ [][NextFetch]_vars

(***************************************************************************)
(* Claims about the fetchers and the fetcher scope (SpecFetch).            *)
(***************************************************************************)
\* C3: every fetcher that from_recipe() creates has a temporary directory that
\* exists from its construction for as long as the scope is open (unless the
\* caller's own block calls cleanup() on it), and the directory is gone once the
\* scope has been left, be it normally, through an exception of the caller's block,
\* or through FetchUnsupportedError raised for a later source.
C3_TempDirScoped ==
    \A i \in SourceIds :
        /\ (fsPhase = "from_recipe" =>
                (fsFetcher[i].dir # "none" <=> (i < fsI /\ KindOf(i) # "unsupported")))
        /\ (fsPhase \in {"yielded", "shutdown"} =>
                (fsFetcher[i].dir # "none" <=> KindOf(i) # "unsupported"))
        /\ (fsPhase \in {"from_recipe", "yielded", "shutdown"} /\ fsFetcher[i].dir # "none"
                => (fsFetcher[i].dir = "exists" \/ fsFetcher[i].cleaned))
        /\ (fsPhase \in {"exited", "raised"} => fsFetcher[i].dir # "exists")

\* C3 witness: FetchUnsupportedError left from_recipe() after an earlier source
\* had got its fetcher, whose directory is removed.
C3_Witness ==
    /\ fsPhase = "raised"
    /\ \E i \in SourceIds : fsFetcher[i].dir = "removed" /\ ~fsFetcher[i].cleaned

\* C4: after the scope of fetch_all_artifacts_with_retry() or
\* fetch_all_corrected_artifacts_with_retry() has exited, the temporary directory
\* of every fetcher that a future resolved to no longer exists.
C4_ResolvedFetchersRemoved ==
    (fsPhase = "exited" /\ fsCfg.mode # "from_recipe") =>
        \A i \in SourceIds :
            fsFuture[i].state = "done" => fsFetcher[fsFuture[i].fetcher].dir # "exists"

\* C5: a future that was outstanding when the caller left the fetcher scope is
\* cancelled or failed: resolving it gives a cancellation error or a fetch error.
C5_OutstandingCancelled ==
    fsPhase = "exited" =>
        \A i \in fsOutstanding : fsFuture[i].state \in {FetchError, CancelledError}

\* C6: a _fetch_archive() call makes at most `retries` fetch() calls, numbered
\* 1, 2, ... in the order made; only the last one can succeed, and the call
\* returns exactly when it does; a failed attempt k that is followed by another
\* one slept retry_interval * k; the call raises FetchError exactly when all
\* `retries` attempts failed.
C6_RetryLoop ==
    \A id \in DOMAIN fsArchive :
        LET a == fsArchive[id]
            n == Len(a.log) IN
        a.state # "none" =>
            /\ n <= a.retries
            /\ \A k \in 1..n :
                /\ a.log[k].retry_id = k
                /\ (k < n => ~a.log[k].ok)
                /\ (~a.log[k].ok /\ k < a.retries
                        => a.log[k].slept = fsCfg.retry_interval * k)
                /\ (a.log[k].ok \/ k = a.retries => a.log[k].slept = 0)
            /\ (a.state = "returned" <=> (n >= 1 /\ a.log[n].ok))
            /\ (a.state = "raised" <=>
                    (n = a.retries /\ \A k \in 1..n : ~a.log[k].ok))

\* C6 witness: two attempts failed, with sleeps of one and two intervals, and the
\* third succeeded.
C6_Witness ==
    \E id \in DOMAIN fsArchive :
        /\ fsArchive[id].state = "returned"
        /\ Len(fsArchive[id].log) = 3
        /\ fsArchive[id].log[2].slept = 2 * DEFAULT_RETRY_INTERVAL

\* C7 as stated: in the corrected path, for every retries >= 1, when the PyPI URL
\* failed on every attempt of its share, the corrected URL is fetched with the
\* rest of the budget (the two shares add up to `retries`), and if the corrected
\* URL can be fetched the future resolves to (corrected fetcher, corrected URL).
C7_AsStated ==
    \A i \in SourceIds :
        ( /\ fsCfg.mode = "fetch_all_corrected"
          /\ KindOf(i) = "pypi"
          /\ fsCfg.retries >= 1
          /\ fsArchive[i].state = "raised" )
        => /\ (fsCfg.net.api => fsArchive[CorrectedId(i)].state # "none")
           /\ (fsArchive[CorrectedId(i)].state # "none" =>
                  Len(fsArchive[i].log) + fsArchive[CorrectedId(i)].retries = fsCfg.retries)
           /\ (fsCfg.net = CorrectedUp =>
                  fsFuture[i] = DoneFuture(CorrectedId(i), CORRECTED_URL))

\* C7 amended: the same for every retries >= 2 (with retries = 1 the corrected
\* URL gets a share of 0 attempts and the future holds FetchError).
C7_FromTwoRetries ==
    \A i \in SourceIds :
        ( /\ fsCfg.mode = "fetch_all_corrected"
          /\ KindOf(i) = "pypi"
          /\ fsCfg.retries >= 2
          /\ fsArchive[i].state = "raised" )
        => /\ (fsCfg.net.api => fsArchive[CorrectedId(i)].state # "none")
           /\ (fsArchive[CorrectedId(i)].state # "none" =>
                  Len(fsArchive[i].log) + fsArchive[CorrectedId(i)].retries = fsCfg.retries)
           /\ (fsCfg.net = CorrectedUp =>
                  fsFuture[i] = DoneFuture(CorrectedId(i), CORRECTED_URL))

\* C7 witness: with retries = 3 the PyPI URL failed twice and the future holds the
\* corrected fetcher and URL.
C7_Witness ==
    \E i \in SourceIds :
        /\ fsCfg.mode = "fetch_all_corrected"
        /\ KindOf(i) = "pypi"
        /\ fsCfg.retries = 3
        /\ fsArchive[i].state = "raised"
        /\ Len(fsArchive[i].log) = 2
        /\ fsFuture[i] = DoneFuture(CorrectedId(i), CORRECTED_URL)

\* C8: fetched() is false whenever the fetcher's directory is not there (before
\* construction has finished, after cleanup() and after scope exit); for a git
\* fetcher it is true exactly when a fetch() call has succeeded and no cleanup
\* has followed, so failed fetch() calls never set it; and
\* get_path_to_source_code() and get_repo_tags() raise FetchRequiredError exactly
\* in the states in which fetched() is false.
C8_FetchedFlag ==
    \A id \in DOMAIN fsFetcher :
        LET f == fsFetcher[id] IN
        /\ (f.dir # "exists" => ~fetched(f))
        /\ (KindOf(id) = "git" =>
              /\ (fetched(f) <=> (id \in fsFetchedOk /\ f.dir = "exists"))
              /\ (get_path_to_source_code(f) = FetchRequiredError <=> ~fetched(f))
              /\ (get_repo_tags(f) = FetchRequiredError <=> ~fetched(f)))

\* C8 witness: a git fetcher was fetched successfully and then cleaned up by the
\* caller: fetched() is false again.
C8_Witness ==
    \E id \in DOMAIN fsFetcher :
        /\ KindOf(id) = "git"
        /\ id \in fsFetchedOk
        /\ fsFetcher[id].cleaned
        /\ ~fetched(fsFetcher[id])

(***************************************************************************)
(* parser/recipe_reader.py: parsing a recipe text, rendering the tree and  *)
(* parsing the rendering.                                                  *)
(*                                                                         *)
(* A line of recipe text is a record: its leading spaces (num_tab_spaces), *)
(* what _parse_line_node / Regex.MULTILINE_VARIANT make of it, and its key *)
(* and value.  The texts are sections of two-space indented children:      *)
(*     about:                                                              *)
(*       license: MIT                                                      *)
(*       summary: |                                                        *)
(*         foo                                                             *)
(*                                                                         *)
(*     extra:                                                              *)
(***************************************************************************)
BlankLine == [indent |-> 0, kind |-> "blank", key |-> "", val |-> ""]

num_tab_spaces(line) == line.indent

RecipeLineChoices ==
    { BlankLine,
      [indent |-> 0, kind |-> "key",  key |-> "about",   val |-> ""],
      [indent |-> 0, kind |-> "key",  key |-> "extra",   val |-> ""],
      [indent |-> 2, kind |-> "kv",   key |-> "license", val |-> "MIT"],
      [indent |-> 2, kind |-> "ml",   key |-> "summary", val |-> "|"],
      [indent |-> 4, kind |-> "text", key |-> "",        val |-> "foo"] }

\* Line k lies in the run of lines that follow a multiline header.
RECURSIVE InMultilineRun(_, _)
InMultilineRun(lines, k) ==
    /\ k > 1
    /\ \/ lines[k - 1].kind = "ml"
       \/ /\ lines[k - 1].kind \in {"text", "blank"}
          /\ InMultilineRun(lines, k - 1)

\* The recipe texts considered: the text opens with a section, children
\* follow a section, and indented text occurs only as a multiline value.
RecipeTexts ==
    { lines \in UNION { [1..n -> RecipeLineChoices] : n \in 1..MaxLines } :
        /\ lines[1].kind = "key"
        /\ \A k \in 1..Len(lines) :
              lines[k].kind = "text" => InMultilineRun(lines, k) }

ParseError == [ok |-> FALSE, tree |-> <<>>]

\* The loop of _parse_multiline_node, entered with line_idx on a line that
\* exists: lines join the value while they are indented deeper than the key
\* or are empty.  Yields the value and the index of the next node's line.
RECURSIVE parse_multiline_loop(_, _, _, _)
parse_multiline_loop(lines, line_idx, new_indent, value) ==
    IF num_tab_spaces(lines[line_idx]) > new_indent \/ lines[line_idx] = BlankLine
    THEN IF line_idx + 1 > Len(lines)
         THEN [line_idx |-> line_idx + 1, value |-> Append(value, lines[line_idx].val)]
         ELSE parse_multiline_loop(lines, line_idx + 1, new_indent,
                                   Append(value, lines[line_idx].val))
    ELSE [line_idx |-> line_idx, value |-> value]

\* A child node appended to the section that is on top of the node stack.
AppendChild(tree, child) ==
    [tree EXCEPT ![Len(tree)].children = Append(@, child)]

\* `new_node.value in [child.value for child in parent.children]`
DuplicateKey(children, key) ==
    \E c \in 1..Len(children) : children[c].key = key

\* _construct_parse_tree from line line_idx on.  The tree is the sequence of
\* the root's children; a section holds the sequence of its children, each
\* a key with a one-line value or with the lines of a multiline value.
RECURSIVE construct_parse_tree(_, _, _)
construct_parse_tree(lines, line_idx, tree) ==
    IF line_idx > Len(lines) THEN [ok |-> TRUE, tree |-> tree]
    ELSE
      LET line == lines[line_idx]
          next == line_idx + 1
      IN  CASE line.kind = "blank" -> construct_parse_tree(lines, next, tree)
            [] line.kind = "key" ->
                 IF DuplicateKey(tree, line.key) THEN ParseError
                 ELSE construct_parse_tree(lines, next,
                        Append(tree, [key |-> line.key, children |-> <<>>]))
            [] line.kind = "kv" ->
                 IF DuplicateKey(tree[Len(tree)].children, line.key) THEN ParseError
                 ELSE construct_parse_tree(lines, next,
                        AppendChild(tree, [key |-> line.key, kind |-> "kv",
                                           value |-> <<line.val>>]))
            [] line.kind = "ml" ->
                 IF next > Len(lines) THEN ParseError   \* lines[line_idx]: IndexError
                 ELSE
                   LET m == parse_multiline_loop(lines, next, num_tab_spaces(line), <<>>)
                   IN  IF DuplicateKey(tree[Len(tree)].children, line.key) THEN ParseError
                       ELSE construct_parse_tree(lines, m.line_idx,
                              AppendChild(tree, [key |-> line.key, kind |-> "ml",
                                                 value |-> m.value]))
            [] OTHER -> ParseError

RECURSIVE Flatten(_)
Flatten(seqs) == IF seqs = <<>> THEN <<>> ELSE Head(seqs) \o Flatten(Tail(seqs))

\* _render_tree of a section's child (node.is_single_key()): one line, or
\* the key with the multiline mark and one line per line of the value,
\* right-stripped, so that an empty value line is an empty line.
render_single_key(node) ==
    IF node.kind = "ml"
    THEN <<[indent |-> 2, kind |-> "ml", key |-> node.key, val |-> "|"]>>
         \o [j \in 1..Len(node.value) |->
                IF node.value[j] = "" THEN BlankLine
                ELSE [indent |-> 4, kind |-> "text", key |-> "", val |-> node.value[j]]]
    ELSE <<[indent |-> 2, kind |-> "kv", key |-> node.key, val |-> node.value[1]]>>

\* _render_tree of the root: each top-level section, its children, and the
\* blank line that follows every top-level section.
render_tree(tree) ==
    Flatten([s \in 1..Len(tree) |->
        <<[indent |-> 0, kind |-> "key", key |-> tree[s].key, val |-> ""]>>
        \o Flatten([c \in 1..Len(tree[s].children) |->
                        render_single_key(tree[s].children[c])])
        \o <<BlankLine>>])

\* render(): the lines that "\n".join() makes the text of.
render(tree) == render_tree(tree)

\* "\n".join(lines).splitlines(): the pieces between the line breaks, without
\* the empty piece after a final line break.
splitlines(lines) ==
    IF lines # <<>> /\ lines[Len(lines)] = BlankLine
    THEN SubSeq(lines, 1, Len(lines) - 1)
    ELSE lines

\* RecipeReader.__eq__ of two readers of one schema version
recipe_eq(tree_a, tree_b) == render(tree_a) = render(tree_b)

InitRoundTrip ==
    /\ rtLines \in RecipeTexts
    /\ rtStage = "input"
    /\ rtTree1 = <<>>
    /\ rtText = <<>>
    /\ rtTree2 = <<>>
    /\ IdleBumper
    /\ IdleFetch
    /\ IdlePatch
    /\ IdleConvert
    /\ IdleReconvert
    /\ IdleFormat
    /\ IdleSelector
    /\ IdleCbc
    /\ IdleZipKeys
    /\ IdleIndent
    /\ IdleVarRefs
    /\ IdleGit

\* RecipeReader(R)
ParseRecipe ==
    /\ rtStage = "input"
    /\ rtTree1' = construct_parse_tree(rtLines, 1, <<>>)
    /\ rtStage' = IF rtTree1'.ok THEN "parsed" ELSE "error"
    /\ UNCHANGED <<rtLines, rtText, rtTree2, bumperVars, fetchVars, patchVars, convertVars, reconvertVars, formatVars, selectorVars, cbcVars, zipKeysVars, indentVars, varRefVars, gitVars>>

\* reader.render()
RenderRecipe ==
    /\ rtStage = "parsed"
    /\ rtText' = render(rtTree1.tree)
    /\ rtStage' = "rendered"
    /\ UNCHANGED <<rtLines, rtTree1, rtTree2, bumperVars, fetchVars, patchVars, convertVars, reconvertVars, formatVars, selectorVars, cbcVars, zipKeysVars, indentVars, varRefVars, gitVars>>

\* RecipeReader(reader.render())
ReparseRecipe ==
    /\ rtStage = "rendered"
    /\ rtTree2' = construct_parse_tree(splitlines(rtText), 1, <<>>)
    /\ rtStage' = "reparsed"
    /\ UNCHANGED <<rtLines, rtTree1, rtText, bumperVars, fetchVars, patchVars, convertVars, reconvertVars, formatVars, selectorVars, cbcVars, zipKeysVars, indentVars, varRefVars, gitVars>>

NextRoundTrip == ParseRecipe \/ RenderRecipe \/ ReparseRecipe

SpecRoundTrip == InitRoundTrip /\ [][NextRoundTrip]_vars

\* C9: for every recipe R that parses, parsing the rendering of the parsed
\* recipe yields a tree equal to the first parse:
\* parse(render(parse(R))) == parse(R).
C9_RoundTrip ==
    rtStage = "reparsed" =>
        /\ rtTree2.ok
        /\ recipe_eq(rtTree2.tree, rtTree1.tree)

(***************************************************************************)
(* RecipeParser.patch: JSON-Patch operations (RFC 6902) applied one after  *)
(* the other to a tree, and is_modified().  The tree is a mapping of keys  *)
(* to values together with one list:                                       *)
(*     /a, /b        keys of the mapping, present or not                   *)
(*     /lst/0 ...    members of the list                                   *)
(* A path is [key, idx]: idx is -1 for a key of the mapping and the index  *)
(* for a member of the list.                                               *)
(***************************************************************************)
NoValue == <<>>

PatchValues == {1, 2}

PatchPaths ==
    [key : {"a", "b"}, idx : {-1}] \cup [key : {"lst"}, idx : 0..MaxList]

\* The well-formed patches: `add`, `replace` and `test` carry a value.
PatchOps ==
    [op : {"add", "replace", "test"}, path : PatchPaths, value : PatchValues]
    \cup [op : {"remove"}, path : PatchPaths, value : {0}]

PatchTrees ==
    { [map |-> [k \in {"a", "b"} |-> IF k = "a" THEN a ELSE NoValue], lst |-> l] :
        a \in {NoValue, <<1>>}, l \in {<<>>, <<1>>} }

\* contains_value that finds no member of a list.
contains_value_KeysOnly(tree, path) ==
    IF path.idx < 0 THEN tree.map[path.key] # NoValue
    ELSE FALSE

\* RecipeReader.contains_value: the path leads to a node of the tree.
contains_value(tree, path) ==
    IF path.idx < 0 THEN tree.map[path.key] # NoValue
    ELSE path.idx < Len(tree.lst)

\* The value at a path that the tree contains.
get_value(tree, path) ==
    IF path.idx < 0 THEN tree.map[path.key][1] ELSE tree.lst[path.idx + 1]

\* patch(op): the tree afterwards and the value returned.  `add` sets a key
\* of the mapping or inserts into the list at an index within [0, len];
\* `remove` and `replace` need the path to exist; `test` compares and leaves
\* the tree alone.
patch(tree, op) ==
    LET path == op.path
        n == Len(tree.lst)
        Failed == [ok |-> FALSE, tree |-> tree]
        Done(t) == [ok |-> TRUE, tree |-> t]
    IN  CASE op.op = "add" ->
               IF path.idx < 0
               THEN Done([tree EXCEPT !.map[path.key] = <<op.value>>])
               ELSE IF path.idx <= n
                    THEN Done([tree EXCEPT !.lst = SubSeq(@, 1, path.idx)
                                   \o <<op.value>> \o SubSeq(@, path.idx + 1, n)])
                    ELSE Failed
          [] op.op = "remove" ->
               IF ~contains_value(tree, path) THEN Failed
               ELSE IF path.idx < 0
                    THEN Done([tree EXCEPT !.map[path.key] = NoValue])
                    ELSE Done([tree EXCEPT !.lst = SubSeq(@, 1, path.idx)
                                   \o SubSeq(@, path.idx + 2, n)])
          [] op.op = "replace" ->
               IF ~contains_value(tree, path) THEN Failed
               ELSE IF path.idx < 0
                    THEN Done([tree EXCEPT !.map[path.key] = <<op.value>>])
                    ELSE Done([tree EXCEPT !.lst[path.idx + 1] = op.value])
          [] op.op = "test" ->
               IF contains_value(tree, path) /\ get_value(tree, path) = op.value
               THEN Done(tree)
               ELSE Failed

InitPatch ==
    /\ ptTree \in PatchTrees
    /\ ptModified = FALSE
    /\ ptLast = <<>>
    /\ ptAdded = {}
    /\ ptRemoved = {}
    /\ ptLastWrite = [p \in PatchPaths |-> "none"]
    /\ ptSucceeded = 0
    /\ ptOps = 0
    /\ IdleBumper
    /\ IdleFetch
    /\ IdleRoundTrip
    /\ IdleConvert
    /\ IdleReconvert
    /\ IdleFormat
    /\ IdleSelector
    /\ IdleCbc
    /\ IdleZipKeys
    /\ IdleIndent
    /\ IdleVarRefs
    /\ IdleGit

\* parser.patch(op): the tree changes as the operation says and a patch
\* that succeeded marks the recipe as modified.
ApplyPatch ==
    /\ ptOps < MaxPatches
    /\ \E op \in PatchOps :
         LET r == patch(ptTree, op)
         IN  /\ (op.op = "add" /\ op.path.idx >= 0) => Len(ptTree.lst) < MaxList
             /\ ptTree' = r.tree
             /\ ptModified' = (ptModified \/ r.ok)
             /\ ptLast' = <<[op |-> op, ok |-> r.ok]>>
             /\ ptAdded' = IF r.ok /\ op.op = "add"
                           THEN ptAdded \cup {op.path} ELSE ptAdded
             /\ ptRemoved' = IF r.ok /\ op.op = "remove"
                             THEN ptRemoved \cup {op.path} ELSE ptRemoved
             /\ ptLastWrite' = IF r.ok /\ op.op \in {"add", "remove"}
                               THEN [ptLastWrite EXCEPT ![op.path] = op.op]
                               ELSE ptLastWrite
             /\ ptSucceeded' = ptSucceeded + (IF r.ok THEN 1 ELSE 0)
    /\ ptOps' = ptOps + 1
    /\ UNCHANGED <<bumperVars, fetchVars, roundTripVars, convertVars, reconvertVars, formatVars, selectorVars, cbcVars, zipKeysVars, indentVars, varRefVars, gitVars>>

NextPatch == ApplyPatch

SpecPatch == InitPatch /\ [][NextPatch]_vars

ConvertInputs ==
    { r \in [sel : SUBSET {"list_member", "bool_leaf", "other_leaf", "parent_key"},
             jinja : SUBSET {"value", "comment"},
             license : {"none", "spdx", "fixable", "not_a_string"},
             family : BOOLEAN,
             comments : SUBSET {"/about/license", "/about/license_family"},
             refused : SUBSET {"selector", "jinja", "license"}] :
        /\ "/about/license" \in r.comments => r.license # "none"
        /\ "/about/license_family" \in r.comments => r.family
        /\ "selector" \in r.refused => r.sel \cap {"list_member", "bool_leaf"} # {}
        /\ "jinja" \in r.refused => "value" \in r.jinja
        /\ "license" \in r.refused => r.license = "fixable" }

\* MessageTable.add_message(category, text about a patch or a path)
Msg(cat, text, about) == [cat |-> cat, text |-> text, about |-> about]

\* _patch_and_log: the result of patch() and the message a refused patch adds
patch_and_log(in, patch_name) ==
    [ok |-> patch_name \notin in.refused,
     msgs |-> IF patch_name \in in.refused
              THEN {Msg("ERROR", "Failed to patch", patch_name)} ELSE {}]

InitConvert ==
    /\ cvIn \in ConvertInputs
    /\ cvPc = "selectors"
    /\ cvSel = cvIn.sel
    /\ cvBare = cvIn.jinja
    /\ cvDeclared = FALSE
    /\ cvOldC = {}
    /\ cvNewC = cvIn.comments
    /\ cvPaths = cvIn.comments
    /\ cvFailed = {}
    /\ cvMsgs = {}
    /\ IdleBumper
    /\ IdleFetch
    /\ IdleRoundTrip
    /\ IdlePatch
    /\ IdleReconvert
    /\ IdleFormat
    /\ IdleSelector
    /\ IdleCbc
    /\ IdleZipKeys
    /\ IdleIndent
    /\ IdleVarRefs
    /\ IdleGit

\* render_to_v1_recipe_format up to _upgrade_selectors_to_conditionals: the
\* comments table is logged; a selector on a node that is not a leaf is
\* passed over, one on a leaf that is neither a boolean nor a list member
\* gets a warning, and the others are patched and removed from the node.
UpgradeSelectors ==
    /\ cvPc = "selectors"
    /\ LET patched == cvIn.sel \cap {"list_member", "bool_leaf"}
           r == patch_and_log(cvIn, "selector")
       IN  /\ cvSel' = cvSel \ patched
           /\ cvFailed' = IF patched # {} /\ ~r.ok
                          THEN cvFailed \cup {"selector"} ELSE cvFailed
           /\ cvMsgs' = cvMsgs
                \cup (IF "other_leaf" \in cvIn.sel
                      THEN {Msg("WARNING", "A non-list item had a selector", "other_leaf")}
                      ELSE {})
                \cup (IF patched # {} THEN r.msgs ELSE {})
    /\ cvOldC' = cvNewC
    /\ cvPc' = "jinja"
    /\ UNCHANGED <<cvIn, cvBare, cvDeclared, cvNewC, cvPaths>>
    /\ UNCHANGED <<bumperVars, fetchVars, roundTripVars, patchVars, reconvertVars, formatVars, selectorVars, cbcVars, zipKeysVars, indentVars, varRefVars, gitVars>>

\* _upgrade_jinja_to_context_obj: /schema_version is added and every string
\* value found by search(JINJA_V0_SUB) is replaced with its `${{` form.
UpgradeJinja ==
    /\ cvPc = "jinja"
    /\ cvDeclared' = TRUE
    /\ LET r == patch_and_log(cvIn, "jinja")
       IN  IF "value" \in cvBare
           THEN /\ cvBare' = IF r.ok THEN cvBare \ {"value"} ELSE cvBare
                /\ cvFailed' = IF r.ok THEN cvFailed ELSE cvFailed \cup {"jinja"}
                /\ cvMsgs' = cvMsgs \cup r.msgs
           ELSE UNCHANGED <<cvBare, cvFailed, cvMsgs>>
    /\ cvPc' = "about"
    /\ UNCHANGED <<cvIn, cvSel, cvOldC, cvNewC, cvPaths>>
    /\ UNCHANGED <<bumperVars, fetchVars, roundTripVars, patchVars, reconvertVars, formatVars, selectorVars, cbcVars, zipKeysVars, indentVars, varRefVars, gitVars>>

\* _upgrade_about_section: _fix_bad_licenses calls str.strip() on the value
\* of /about/license and replaces a name that can be corrected; then
\* _patch_deprecated_fields removes /about/license_family.  Whether the
\* replaced node keeps its comment is up to patch().
UpgradeAbout ==
    /\ cvPc = "about"
    /\ IF cvIn.license = "not_a_string"
       THEN /\ cvPc' = "raised"
            /\ UNCHANGED <<cvNewC, cvPaths, cvFailed, cvMsgs>>
       ELSE LET r == patch_and_log(cvIn, "license")
                fix == cvIn.license = "fixable"
                gone == IF cvIn.family THEN {"/about/license_family"} ELSE {}
            IN  /\ cvPc' = "cleanup"
                /\ \E keeps_comment \in BOOLEAN :
                      cvNewC' = (cvNewC \ gone) \
                          (IF fix /\ r.ok /\ ~keeps_comment
                           THEN {"/about/license"} ELSE {})
                /\ cvPaths' = cvPaths \ gone
                /\ cvFailed' = IF fix /\ ~r.ok
                               THEN cvFailed \cup {"license"} ELSE cvFailed
                /\ cvMsgs' = cvMsgs
                     \cup (IF cvIn.license = "none"
                           THEN {Msg("WARNING", "No license provided", "/about")} ELSE {})
                     \cup (IF fix THEN r.msgs ELSE {})
                     \cup (IF fix /\ r.ok
                           THEN {Msg("WARNING", "Changed", "/about/license")} ELSE {})
                     \cup (IF cvIn.family
                           THEN {Msg("WARNING", "Field is no longer supported",
                                     "/about/license_family")}
                           ELSE {})
    /\ UNCHANGED <<cvIn, cvSel, cvBare, cvDeclared, cvOldC>>
    /\ UNCHANGED <<bumperVars, fetchVars, roundTripVars, patchVars, reconvertVars, formatVars, selectorVars, cbcVars, zipKeysVars, indentVars, varRefVars, gitVars>>

\* The final clean-up: a comment of the old table whose path is not a key
\* of the new table gets a warning if the tree no longer contains the path.
FinalCleanup ==
    /\ cvPc = "cleanup"
    /\ cvMsgs' = cvMsgs \cup
          { Msg("WARNING", "Could not relocate comment", path) :
              path \in { p \in cvOldC \ cvNewC : p \notin cvPaths } }
    /\ cvPc' = "done"
    /\ UNCHANGED <<cvIn, cvSel, cvBare, cvDeclared, cvOldC, cvNewC, cvPaths, cvFailed>>
    /\ UNCHANGED <<bumperVars, fetchVars, roundTripVars, patchVars, reconvertVars, formatVars, selectorVars, cbcVars, zipKeysVars, indentVars, varRefVars, gitVars>>

NextConvert == UpgradeSelectors \/ UpgradeJinja \/ UpgradeAbout \/ FinalCleanup

SpecConvert == InitConvert /\ [][NextConvert]_vars

\* C11: render_to_v1_recipe_format always completes: no step of the pipeline
\* raises, and every patch that failed is recorded as an ERROR message while
\* the steps after it still run.
C11_AlwaysCompletes ==
    /\ cvPc # "raised"
    /\ \A p \in cvFailed : Msg("ERROR", "Failed to patch", p) \in cvMsgs

\* C12: after the conversion the selector table is empty: no selector
\* comment of the v0 recipe is left on a node.
C12_NoSelectorLeft == cvPc = "done" => cvSel = {}

\* C13: the converted recipe declares schema_version 1 and holds no `{{ `
\* that is not preceded by `$`.
C13_SchemaAndNoBareJinja == cvPc = "done" => (cvDeclared /\ cvBare = {})

\* C15: every comment of the old comments table that is absent from the
\* new one has a WARNING message that names it.
C15_LostCommentsWarned ==
    cvPc = "done" =>
        \A p \in cvOldC \ cvNewC :
            Msg("WARNING", "Could not relocate comment", p) \in cvMsgs

(***************************************************************************)
(* Converting a recipe and converting the result again, on the recipe      *)
(* texts of the round-trip sub-model.  On these texts the pipeline adds    *)
(* /schema_version and sorts the top-level keys; /about/license is an SPDX *)
(* name and stays.                                                         *)
(***************************************************************************)
SchemaVersionLine ==
    [indent |-> 0, kind |-> "kv", key |-> "schema_version", val |-> "1"]

\* _sort_subtree_keys("/", TOP_LEVEL_KEY_SORT_ORDER): about before extra
sort_subtree_keys(tree) ==
    IF Len(tree) = 2 /\ tree[1].key = "extra" /\ tree[2].key = "about"
    THEN <<tree[2], tree[1]>>
    ELSE tree

\* RecipeParserConvert(text).render_to_v1_recipe_format(): the constructor
\* parses the text, renders it and parses the rendering into _v1_recipe; the
\* pipeline runs on _v1_recipe, which is rendered with the schema version in
\* front.  The text is cut at its line breaks as a reader of the file does.
convert(lines) ==
    LET body == IF lines # <<>> /\ lines[1] = SchemaVersionLine
                THEN SubSeq(lines, 2, Len(lines)) ELSE lines
        own == construct_parse_tree(body, 1, <<>>)
        v1_recipe == construct_parse_tree(splitlines(render(own.tree)), 1, <<>>)
    IN  IF ~own.ok \/ ~v1_recipe.ok THEN [ok |-> FALSE, text |-> <<>>]
        ELSE [ok |-> TRUE,
              text |-> splitlines(<<SchemaVersionLine, BlankLine>>
                                  \o render(sort_subtree_keys(v1_recipe.tree)))]

InitReconvert ==
    /\ ccLines \in RecipeTexts
    /\ ccStage = "input"
    /\ ccOut1 = <<>>
    /\ ccOut2 = <<>>
    /\ IdleBumper
    /\ IdleFetch
    /\ IdleRoundTrip
    /\ IdlePatch
    /\ IdleConvert
    /\ IdleFormat
    /\ IdleSelector
    /\ IdleCbc
    /\ IdleZipKeys
    /\ IdleIndent
    /\ IdleVarRefs
    /\ IdleGit

\* convert(R)
ConvertOnce ==
    /\ ccStage = "input"
    /\ LET c == convert(ccLines)
       IN  /\ ccOut1' = c.text
           /\ ccStage' = IF c.ok THEN "once" ELSE "error"
    /\ UNCHANGED <<ccLines, ccOut2>>
    /\ UNCHANGED <<bumperVars, fetchVars, roundTripVars, patchVars, convertVars, formatVars, selectorVars, cbcVars, zipKeysVars, indentVars, varRefVars, gitVars>>

\* convert(convert(R))
ConvertAgain ==
    /\ ccStage = "once"
    /\ LET c == convert(ccOut1)
       IN  /\ ccOut2' = c.text
           /\ ccStage' = IF c.ok THEN "twice" ELSE "error"
    /\ UNCHANGED <<ccLines, ccOut1>>
    /\ UNCHANGED <<bumperVars, fetchVars, roundTripVars, patchVars, convertVars, formatVars, selectorVars, cbcVars, zipKeysVars, indentVars, varRefVars, gitVars>>

NextReconvert == ConvertOnce \/ ConvertAgain

SpecReconvert == InitReconvert /\ [][NextReconvert]_vars

\* C14: conversion is idempotent: converting the output of a conversion
\* again gives the same recipe, convert(convert(R)) == convert(R).
C14_ConvertIdempotent == ccStage = "twice" => ccOut2 = ccOut1

(***************************************************************************)
(* parser/v0_recipe_formatter.py: V0RecipeFormatter.                       *)
(*                                                                         *)
(* A line is its leading spaces and what the formatter tells apart: a      *)
(* section header (`key:`), a list item (`- x`), a comment (`# c`),        *)
(* another line (`key: value`) and the empty line.  The constructor cuts   *)
(* the text at its line breaks and __str__ joins the lines and ends the    *)
(* text with a line break, which gives the same lines back.                *)
(***************************************************************************)
FormatLineChoices ==
    { [indent |-> 0, kind |-> "header"],
      [indent |-> 0, kind |-> "item"],
      [indent |-> 2, kind |-> "item"],
      [indent |-> 0, kind |-> "comment"],
      [indent |-> 2, kind |-> "comment"],
      [indent |-> 6, kind |-> "other"],
      [indent |-> 0, kind |-> "blank"] }

\* _fix_comment_and_list_indentation from line idx on (the first line is
\* line 1), with the flag of a comment block and the indentation that a
\* badly indented list is moved to.
RECURSIVE fix_comment_and_list_indentation(_, _, _, _)
fix_comment_and_list_indentation(lines, idx, is_comment_block, tracker) ==
    IF idx > Len(lines) THEN lines
    ELSE IF lines[idx].kind = "blank" \/ ~(1 < idx /\ idx < Len(lines))
    THEN fix_comment_and_list_indentation(lines, idx + 1, is_comment_block, tracker)
    ELSE
      LET line == lines[idx]
          next == lines[idx + 1]
          is_comment == line.kind = "comment"
          block == is_comment /\ (is_comment_block \/ next.kind = "comment")
          aligned == IF /\ is_comment
                        /\ line.indent # next.indent
                        /\ next.kind # "blank"
                        /\ ~block
                     THEN [line EXCEPT !.indent = next.indent] ELSE line
          expected_lst_indent == line.indent + 2
          bad_list == /\ line.kind = "header"
                      /\ next.kind = "item"
                      /\ next.indent # expected_lst_indent
          in_bad_list == /\ ~bad_list
                         /\ tracker > 0
                         /\ \/ line.kind = "item"
                            \/ is_comment /\ next.kind = "item"
      IN  fix_comment_and_list_indentation(
              [lines EXCEPT ![idx] = IF in_bad_list
                                     THEN [aligned EXCEPT !.indent = tracker]
                                     ELSE aligned],
              idx + 1, block,
              IF bad_list THEN expected_lst_indent
              ELSE IF in_bad_list THEN tracker ELSE -1)

\* One pass of _fix_excessive_indentation from line idx on: the stack holds
\* the indentation of the parent lines, prev_cntr that of the line before
\* (-2 at the start).  Yields the lines and whether the pass changed them,
\* whether it gave up, and the lines it had worked out when it ended.
RECURSIVE fix_excessive_indentation_pass(_, _, _, _, _)
fix_excessive_indentation_pass(old_lines, lines, idx, parent_stack, prev_cntr) ==
    IF idx > Len(old_lines)
    THEN [lines |-> lines, changed |-> lines # old_lines, gave_up |-> FALSE, work |-> lines]
    ELSE IF old_lines[idx].kind = "blank"
    THEN fix_excessive_indentation_pass(old_lines, lines, idx + 1, parent_stack, prev_cntr)
    ELSE
      LET cur_cntr == old_lines[idx].indent
          gave_up == [lines |-> old_lines, changed |-> FALSE, gave_up |-> TRUE,
                      work |-> lines]
          stack == IF cur_cntr > prev_cntr
                   THEN Append(parent_stack, IF prev_cntr < 0 THEN 0 ELSE prev_cntr)
                   ELSE IF cur_cntr < prev_cntr /\ parent_stack # <<>>
                   THEN SubSeq(parent_stack, 1, Len(parent_stack) - 1)
                   ELSE parent_stack
      IN  IF (cur_cntr < prev_cntr /\ parent_stack = <<>>) \/ stack = <<>>
          THEN gave_up
          ELSE LET correct_indent == stack[Len(stack)] + 2
               IN  fix_excessive_indentation_pass(
                       old_lines,
                       [lines EXCEPT ![idx].indent =
                           IF cur_cntr > correct_indent THEN correct_indent ELSE cur_cntr],
                       idx + 1, stack, cur_cntr)

\* fix_excessive_indentation: passes until one changes nothing
RECURSIVE fix_excessive_indentation(_)
fix_excessive_indentation(lines) ==
    LET pass == fix_excessive_indentation_pass(lines, lines, 1, <<>>, -2)
    IN  IF pass.changed THEN fix_excessive_indentation(pass.lines) ELSE pass.lines

\* The formatter applied to a text: fmt_text(), fix_excessive_indentation()
\* and str().
format(lines) ==
    fix_excessive_indentation(fix_comment_and_list_indentation(lines, 1, FALSE, -1))

InitFormat ==
    /\ fmText \in UNION { [1..n -> FormatLineChoices] : n \in 1..MaxLines }
    /\ fmPrev = <<>>
    /\ fmRuns = 0
    /\ IdleBumper
    /\ IdleFetch
    /\ IdleRoundTrip
    /\ IdlePatch
    /\ IdleConvert
    /\ IdleReconvert
    /\ IdleSelector
    /\ IdleCbc
    /\ IdleZipKeys
    /\ IdleIndent
    /\ IdleVarRefs
    /\ IdleGit

\* V0RecipeFormatter(text) formatted and turned into text again
Format ==
    /\ fmRuns < 2
    /\ fmPrev' = fmText
    /\ fmText' = format(fmText)
    /\ fmRuns' = fmRuns + 1
    /\ UNCHANGED <<bumperVars, fetchVars, roundTripVars, patchVars, convertVars,
                   reconvertVars, selectorVars, cbcVars, zipKeysVars, indentVars, varRefVars, gitVars>>

NextFormat == Format

SpecFormat == InitFormat /\ [][NextFormat]_vars

\* C16: formatting is idempotent: formatting the formatter's own output
\* changes nothing, format(format(T)) == format(T).
C16_FormatIdempotent == fmRuns = 2 => fmText = fmPrev

(***************************************************************************)
(* parser/selector_parser.py: SelectorParser.                              *)
(*                                                                         *)
(* The content of a selector is modelled as its sequence of words and      *)
(* parentheses (the words are separated by spaces): the atoms a and b,     *)
(* the operators not, and, or.  A node of the parse tree is a record of    *)
(* its value and its two children; a parenthesised group of the            *)
(* pre-processed content is a record with the one field list.              *)
(***************************************************************************)
MaxTokens == 5

Atoms == {"a", "b"}

ALL_LOGIC_OPS == {"and", "or", "not"}

SelectorContents ==
    UNION { [1..n -> Atoms \cup ALL_LOGIC_OPS \cup {"(", ")"}] : n \in 1..MaxTokens }

\* an absent child, and the root of an empty selector
NoneNode == [value |-> None]

\* _SelectorNode(value)
SelectorNode(value) == [value |-> value, l_node |-> NoneNode, r_node |-> NoneNode]

\* _SelectorNode.is_operator
is_operator(node) ==
    node.value \in ALL_LOGIC_OPS /\ node.l_node = NoneNode /\ node.r_node = NoneNode

\* _pre_process_selector_content from position idx on (the first word is at
\* position 1), with the tokens collected so far
RECURSIVE pre_process_selector_content(_, _, _)
pre_process_selector_content(content, idx, tokens) ==
    IF idx > Len(content) THEN [tokens |-> tokens, idx |-> idx]
    ELSE IF content[idx] = ")" THEN [tokens |-> tokens, idx |-> idx + 1]
    ELSE IF content[idx] = "("
    THEN LET sub_tree == pre_process_selector_content(content, idx + 1, <<>>)
         IN  pre_process_selector_content(content, sub_tree.idx,
                 Append(tokens, [list |-> sub_tree.tokens]))
    ELSE pre_process_selector_content(content, idx + 1,
             Append(tokens, SelectorNode(content[idx])))

\* A function of the parser ending with an exception
Raised(exception) == [raised |-> exception, tokens |-> <<>>, root |-> NoneNode]

\* _reduce_not_op from position idx on.  The message of its exception names
\* tokens[idx + 1], also when there is no such token.
RECURSIVE reduce_not_op(_, _, _)
reduce_not_op(tokens, idx, new_tokens) ==
    IF idx > Len(tokens) THEN [raised |-> "none", tokens |-> new_tokens]
    ELSE LET token == tokens[idx]
         IN  IF ~(is_operator(token) /\ token.value = "not")
             THEN reduce_not_op(tokens, idx + 1, Append(new_tokens, token))
             ELSE IF idx + 1 > Len(tokens) THEN Raised("IndexError")
             ELSE IF is_operator(tokens[idx + 1]) THEN Raised("SelectorSyntaxError")
             ELSE reduce_not_op(tokens, idx + 2,
                      Append(new_tokens, [token EXCEPT !.l_node = tokens[idx + 1]]))

\* _reduce_op from position idx on
RECURSIVE reduce_op(_, _, _, _, _)
reduce_op(op, tokens, idx, cur_operand, new_tokens) ==
    IF idx > Len(tokens) THEN [raised |-> "none", tokens |-> new_tokens]
    ELSE IF is_operator(cur_operand) THEN Raised("SelectorSyntaxError")
    ELSE IF idx = Len(tokens)
    THEN [raised |-> "none", tokens |-> Append(new_tokens, cur_operand)]
    ELSE LET operator == tokens[idx + 1]
         IN  IF ~is_operator(operator) THEN Raised("SelectorSyntaxError")
             ELSE IF operator.value # op
             THEN IF idx + 2 > Len(tokens) THEN Raised("IndexError")
                  ELSE reduce_op(op, tokens, idx + 2, tokens[idx + 2],
                           new_tokens \o <<cur_operand, operator>>)
             ELSE IF idx + 2 > Len(tokens) \/ is_operator(tokens[idx + 2])
             THEN Raised("SelectorSyntaxError")
             ELSE reduce_op(op, tokens, idx + 2,
                      [operator EXCEPT !.l_node = cur_operand,
                                       !.r_node = tokens[idx + 2]],
                      new_tokens)

\* _parse_selector_subtree with OR reduced before AND
parse_selector_subtree_OrFirst(tokens) ==
    IF tokens = <<>> THEN Raised("SelectorSyntaxError")
    ELSE IF Len(tokens) = 1 THEN [raised |-> "none", root |-> tokens[1]]
    ELSE LET nots == reduce_not_op(tokens, 1, <<>>)
         IN  IF nots.raised # "none" THEN nots
             ELSE IF Len(nots.tokens) = 1 THEN [raised |-> "none", root |-> nots.tokens[1]]
             ELSE LET ors == reduce_op("or", nots.tokens, 1, nots.tokens[1], <<>>)
                  IN  IF ors.raised # "none" THEN ors
                      ELSE IF Len(ors.tokens) = 1
                      THEN [raised |-> "none", root |-> ors.tokens[1]]
                      ELSE LET ands == reduce_op("and", ors.tokens, 1, ors.tokens[1], <<>>)
                           IN  IF ands.raised # "none" THEN ands
                               ELSE IF Len(ands.tokens) = 1
                               THEN [raised |-> "none", root |-> ands.tokens[1]]
                               ELSE Raised("SelectorSyntaxError")

\* _parse_selector_subtree: NOT first, AND second, OR third
parse_selector_subtree(tokens) ==
    IF tokens = <<>> THEN Raised("SelectorSyntaxError")
    ELSE IF Len(tokens) = 1 THEN [raised |-> "none", root |-> tokens[1]]
    ELSE LET nots == reduce_not_op(tokens, 1, <<>>)
         IN  IF nots.raised # "none" THEN nots
             ELSE IF Len(nots.tokens) = 1 THEN [raised |-> "none", root |-> nots.tokens[1]]
             ELSE LET ands == reduce_op("and", nots.tokens, 1, nots.tokens[1], <<>>)
                  IN  IF ands.raised # "none" THEN ands
                      ELSE IF Len(ands.tokens) = 1
                      THEN [raised |-> "none", root |-> ands.tokens[1]]
                      ELSE LET ors == reduce_op("or", ands.tokens, 1, ands.tokens[1], <<>>)
                           IN  IF ors.raised # "none" THEN ors
                               ELSE IF Len(ors.tokens) = 1
                               THEN [raised |-> "none", root |-> ors.tokens[1]]
                               ELSE Raised("SelectorSyntaxError")

\* _parse_selector_tree: the groups first, in their order, then the list
RECURSIVE parse_selector_tree(_)
parse_selector_tree(tokens) ==
    IF tokens = <<>> THEN Raised("SelectorSyntaxError")
    ELSE LET subtrees == [i \in DOMAIN tokens |->
                             IF "list" \in DOMAIN tokens[i]
                             THEN parse_selector_tree(tokens[i].list)
                             ELSE [raised |-> "none", root |-> tokens[i]]]
             failed == { i \in DOMAIN tokens : subtrees[i].raised # "none" }
         IN  IF failed # {}
             THEN subtrees[CHOOSE i \in failed : \A j \in failed : i <= j]
             ELSE parse_selector_subtree([i \in DOMAIN tokens |-> subtrees[i].root])

\* _eval_node of does_selector_apply, for a query with a platform: an atom
\* is true when it is one of the build environment's variables
RECURSIVE eval_node(_, _)
eval_node(node, build_env_vars) ==
    IF node.value = None THEN FALSE
    ELSE IF node.value = "not" THEN ~eval_node(node.l_node, build_env_vars)
    ELSE IF node.value = "and"
    THEN eval_node(node.l_node, build_env_vars) /\ eval_node(node.r_node, build_env_vars)
    ELSE IF node.value = "or"
    THEN eval_node(node.l_node, build_env_vars) \/ eval_node(node.r_node, build_env_vars)
    ELSE node.value \in build_env_vars

InitSelector ==
    /\ slContent \in SelectorContents
    /\ slPc = "new"
    /\ slRoot = NoneNode
    /\ slRaised = "none"
    /\ slEnv = {}
    /\ slApplies = FALSE
    /\ IdleBumper
    /\ IdleFetch
    /\ IdleRoundTrip
    /\ IdlePatch
    /\ IdleConvert
    /\ IdleReconvert
    /\ IdleFormat
    /\ IdleCbc
    /\ IdleZipKeys
    /\ IdleIndent
    /\ IdleVarRefs
    /\ IdleGit

\* SelectorParser(content, schema_version)
ParseSelector ==
    /\ slPc = "new"
    /\ LET pre_processed_content == pre_process_selector_content(slContent, 1, <<>>).tokens
           tree == IF pre_processed_content = <<>>
                   THEN [raised |-> "none", root |-> NoneNode]
                   ELSE parse_selector_tree(pre_processed_content)
       IN  /\ slRaised' = tree.raised
           /\ slRoot' = IF tree.raised = "none" THEN tree.root ELSE NoneNode
           /\ slPc' = IF tree.raised = "none" THEN "parsed" ELSE "raised"
    /\ UNCHANGED <<slContent, slEnv, slApplies>>
    /\ UNCHANGED <<bumperVars, fetchVars, roundTripVars, patchVars, convertVars,
                   reconvertVars, formatVars, cbcVars, zipKeysVars, indentVars, varRefVars, gitVars>>

\* SelectorParser.does_selector_apply(query)
DoesSelectorApply ==
    /\ slPc = "parsed"
    /\ \E build_env_vars \in SUBSET Atoms :
          /\ slEnv' = build_env_vars
          /\ slApplies' = IF slRoot = NoneNode THEN TRUE ELSE eval_node(slRoot, build_env_vars)
    /\ slPc' = "applied"
    /\ UNCHANGED <<slContent, slRoot, slRaised>>
    /\ UNCHANGED <<bumperVars, fetchVars, roundTripVars, patchVars, convertVars,
                   reconvertVars, formatVars, cbcVars, zipKeysVars, indentVars, varRefVars, gitVars>>

NextSelector == ParseSelector \/ DoesSelectorApply

SpecSelector == InitSelector /\ [][NextSelector]_vars

\* The value of a selector under the stated precedence, read from position
\* pos on: level 0 is an `or` of level 1, level 1 an `and` of level 2,
\* level 2 a `not` of level 2, a parenthesised level 0 or an atom.
RECURSIVE StatedValue(_, _, _, _)
StatedValue(level, content, pos, env) ==
    LET malformed == [ok |-> FALSE, pos |-> pos, val |-> FALSE]
    IN  IF level = 2
        THEN IF pos > Len(content) THEN malformed
             ELSE IF content[pos] = "not"
             THEN LET operand == StatedValue(2, content, pos + 1, env)
                  IN  [operand EXCEPT !.val = ~operand.val]
             ELSE IF content[pos] = "("
             THEN LET group == StatedValue(0, content, pos + 1, env)
                  IN  IF group.ok /\ group.pos <= Len(content) /\ content[group.pos] = ")"
                      THEN [group EXCEPT !.pos = group.pos + 1]
                      ELSE malformed
             ELSE IF content[pos] \in Atoms
             THEN [ok |-> TRUE, pos |-> pos + 1, val |-> content[pos] \in env]
             ELSE malformed
        ELSE LET left == StatedValue(level + 1, content, pos, env)
                 op == IF level = 0 THEN "or" ELSE "and"
             IN  IF left.ok /\ left.pos <= Len(content) /\ content[left.pos] = op
                 THEN LET right == StatedValue(level, content, left.pos + 1, env)
                      IN  IF ~right.ok THEN malformed
                          ELSE [right EXCEPT !.val = IF level = 0
                                                     THEN left.val \/ right.val
                                                     ELSE left.val /\ right.val]
                 ELSE left

\* The content is a well-formed selector: balanced parentheses, every
\* operator with its operands.
WellFormed(content) ==
    LET whole == StatedValue(0, content, 1, {})
    IN  whole.ok /\ whole.pos = Len(content) + 1

C18_MalformedRaises ==
    (slPc # "new" /\ ~WellFormed(slContent)) => slRaised = "SelectorSyntaxError"

(***************************************************************************)
(* parser/cbc_parser.py: CbcParser.generate_cbc_values and                 *)
(* generate_variants.                                                      *)
(*                                                                         *)
(* A CBC file is the table of its variables, each a list of entries, and   *)
(* its zip keys, a list of groups of entries.  Of an entry the model keeps *)
(* whether its selector is absent or applies to the query (TRUE) or not    *)
(* (FALSE); the value of entry j of a variable in file i of the list is    *)
(* the record [file |-> i, entry |-> j], so every entry has a value of its *)
(* own.  A variable with no entry is not in the table, and cbc_values is   *)
(* modelled as a function on all names in which the empty list stands for  *)
(* a missing key (the code never stores an empty list).                    *)
(***************************************************************************)
MaxEntries == 2

\* the members of a list
Range(list) == { list[i] : i \in DOMAIN list }

\* the variables of DEFAULT_VARIANTS that are not special keys
DEFAULT_VARIANTS ==
    <<"python", "numpy", "perl", "lua", "r_base", "cpu_optimization_target",
      "cran_mirror">>

\* all names, in the order in which the model lists keys: the defaults, a
\* variable of the files and a name that no file defines
CbcNames == DEFAULT_VARIANTS \o <<"zlib", "openssl">>

\* _construct_default_variants_cbc: one entry for each default variable
construct_default_variants_cbc ==
    [vars |-> [n \in Range(CbcNames) |->
                  IF n \in Range(DEFAULT_VARIANTS) THEN <<TRUE>> ELSE <<>>],
     zip_keys |-> <<>>]

\* CbcParser(content): python with up to two entries, zlib with up to
\* MaxEntries entries, and no zip keys or one group of two
CbcFiles ==
    { [vars |-> [n \in Range(CbcNames) |->
                    IF n = "python" THEN p ELSE IF n = "zlib" THEN z ELSE <<>>],
       zip_keys |-> k] :
        p \in {<<>>, <<TRUE>>, <<TRUE, TRUE>>},
        z \in {<<>>} \cup UNION { [1..n -> BOOLEAN] : n \in 1..MaxEntries },
        k \in { <<>>,
                << <<[value |-> "python", applies |-> TRUE],
                     [value |-> "zlib", applies |-> TRUE]>> >>,
                << <<[value |-> "zlib", applies |-> TRUE],
                     [value |-> "openssl", applies |-> TRUE]>> >>,
                << <<[value |-> "python", applies |-> TRUE],
                     [value |-> "zlib", applies |-> FALSE]>> >>,
                << <<[value |-> "python", applies |-> FALSE],
                     [value |-> "zlib", applies |-> FALSE]>> >> } }

\* cbc_files[i].get_cbc_variable_values(variable, selector_query)
get_cbc_variable_values_AllEntries(cbc_files, i, variable) ==
    LET entries == cbc_files[i].vars[variable]
    IN  IF entries = <<>> THEN [raised |-> "KeyError", values |-> <<>>]
        ELSE [raised |-> "none",
              values |-> [j \in 1..Len(entries) |-> [file |-> i, entry |-> j]]]

\* cbc_files[i].get_cbc_variable_values(variable, selector_query)
get_cbc_variable_values(cbc_files, i, variable) ==
    LET entries == cbc_files[i].vars[variable]
        selected(value) == entries[value.entry]
        selected_entries ==
            SelectSeq([j \in 1..Len(entries) |-> [file |-> i, entry |-> j]], selected)
    IN  IF entries = <<>> THEN [raised |-> "KeyError", values |-> <<>>]
        ELSE IF selected_entries = <<>> THEN [raised |-> "ValueError", values |-> <<>>]
        ELSE [raised |-> "none", values |-> selected_entries]

\* get_zip_keys that keeps the names whose selector does not apply
get_zip_keys_AllNames(cbc_file) ==
    IF cbc_file.zip_keys = <<>> THEN [raised |-> "KeyError", zip_keys |-> <<>>]
    ELSE [raised |-> "none",
          zip_keys |-> [g \in 1..Len(cbc_file.zip_keys) |->
                           { cbc_file.zip_keys[g][j].value :
                               j \in 1..Len(cbc_file.zip_keys[g]) }]]

\* cbc_file.get_zip_keys(selector_query), with _validate_zip_keys
get_zip_keys(cbc_file) ==
    LET potential_keys(list_of_keys) ==
            { list_of_keys[j].value :
                j \in { j \in 1..Len(list_of_keys) : list_of_keys[j].applies } }
        nonempty(keys) == keys # {}
        zip_keys == SelectSeq([g \in 1..Len(cbc_file.zip_keys) |->
                                  potential_keys(cbc_file.zip_keys[g])], nonempty)
        valid == /\ \A g \in 1..Len(zip_keys) : Cardinality(zip_keys[g]) > 1
                 /\ \A g, h \in 1..Len(zip_keys) :
                        g < h => zip_keys[g] \cap zip_keys[h] = {}
    IN  IF cbc_file.zip_keys = <<>> THEN [raised |-> "KeyError", zip_keys |-> <<>>]
        ELSE IF zip_keys = <<>> THEN [raised |-> "ValueError", zip_keys |-> <<>>]
        ELSE IF ~valid THEN [raised |-> "ZipKeysException", zip_keys |-> <<>>]
        ELSE [raised |-> "none", zip_keys |-> zip_keys]

\* _validate_zip_keys_against_cbc_values does not raise
validate_zip_keys_against_cbc_values(zip_keys, cbc_values) ==
    \A g \in 1..Len(zip_keys) : \A key \in zip_keys[g] : cbc_values[key] # <<>>

\* generate_cbc_values from file idx of cbc_files on (the default variants
\* are already the first file of the list)
RECURSIVE generate_cbc_values(_, _, _, _)
generate_cbc_values(cbc_files, idx, cbc_values, zip_keys) ==
    IF idx > Len(cbc_files)
    THEN IF validate_zip_keys_against_cbc_values(zip_keys, cbc_values)
         THEN [raised |-> "none", cbc_values |-> cbc_values, zip_keys |-> zip_keys]
         ELSE [raised |-> "ZipKeysException", cbc_values |-> <<>>, zip_keys |-> <<>>]
    ELSE LET file_keys == get_zip_keys(cbc_files[idx])
         IN  IF file_keys.raised = "ZipKeysException"
             THEN [raised |-> "ZipKeysException", cbc_values |-> <<>>, zip_keys |-> <<>>]
             ELSE generate_cbc_values(cbc_files, idx + 1,
                      [variable \in Range(CbcNames) |->
                          LET got == get_cbc_variable_values(cbc_files, idx, variable)
                          IN  IF got.raised = "none" THEN got.values
                              ELSE cbc_values[variable]],
                      IF file_keys.raised = "none" THEN file_keys.zip_keys ELSE zip_keys)

\* itertools.product of one combination only: the first value of every list
product_FirstOnly(all_values) ==
    << [i \in 1..Len(all_values) |-> all_values[i][1]] >>

\* itertools.product(*all_values): the list of all combinations
RECURSIVE product(_)
product(all_values) ==
    IF all_values = <<>> THEN << <<>> >>
    ELSE LET first == Head(all_values)
             rest == product(Tail(all_values))
         IN  [c \in 1..(Len(first) * Len(rest)) |->
                 <<first[((c - 1) \div Len(rest)) + 1]>> \o rest[((c - 1) % Len(rest)) + 1]]

\* generate_variants, after its call of generate_cbc_values
generate_variants(cbc_values, zip_keys) ==
    LET zipped == UNION { zip_keys[g] : g \in 1..Len(zip_keys) }
        unzipped(key) == cbc_values[key] # <<>> /\ key \notin zipped
        unzipped_keys == SelectSeq(CbcNames, unzipped)
        zip_keys_tuples ==
            [g \in 1..Len(zip_keys) |->
                LET in_set(key) == key \in zip_keys[g] IN SelectSeq(CbcNames, in_set)]
        shortest(key_tuple) ==
            CHOOSE n \in { Len(cbc_values[key_tuple[e]]) : e \in 1..Len(key_tuple) } :
                \A e \in 1..Len(key_tuple) : n <= Len(cbc_values[key_tuple[e]])
        all_values ==
            [k \in 1..Len(unzipped_keys) |-> cbc_values[unzipped_keys[k]]]
            \o [g \in 1..Len(zip_keys_tuples) |->
                   [j \in 1..shortest(zip_keys_tuples[g]) |->
                       [e \in 1..Len(zip_keys_tuples[g]) |->
                           cbc_values[zip_keys_tuples[g][e]][j]]]]
        all_combinations == product(all_values)
        new_variant(combo) ==
            [key \in { k \in Range(CbcNames) : cbc_values[k] # <<>> } \cup {"zip_keys"} |->
                IF key = "zip_keys" THEN zip_keys
                ELSE IF key \notin zipped
                THEN combo[CHOOSE k \in 1..Len(unzipped_keys) : unzipped_keys[k] = key]
                ELSE LET g == CHOOSE g \in 1..Len(zip_keys) : key \in zip_keys[g]
                         e == CHOOSE e \in 1..Len(zip_keys_tuples[g]) :
                                  zip_keys_tuples[g][e] = key
                     IN  combo[Len(unzipped_keys) + g][e]]
    IN  [c \in 1..Len(all_combinations) |-> new_variant(all_combinations[c])]

InitCbc ==
    /\ cbFiles \in UNION { [1..n -> CbcFiles] : n \in 0..2 }
    /\ cbPc = "new"
    /\ cbValues = <<>>
    /\ cbZipKeys = <<>>
    /\ cbRaised = "none"
    /\ cbVariants = <<>>
    /\ IdleBumper
    /\ IdleFetch
    /\ IdleRoundTrip
    /\ IdlePatch
    /\ IdleConvert
    /\ IdleReconvert
    /\ IdleFormat
    /\ IdleSelector
    /\ IdleZipKeys
    /\ IdleIndent
    /\ IdleVarRefs
    /\ IdleGit

\* CbcParser.generate_cbc_values(cbc_files, selector_query): the default
\* variants are inserted into the caller's list
GenerateCbcValues ==
    /\ cbPc = "new"
    /\ cbFiles' = <<construct_default_variants_cbc>> \o cbFiles
    /\ \E out \in {generate_cbc_values(cbFiles', 1, [n \in Range(CbcNames) |-> <<>>], <<>>)} :
           /\ cbRaised' = out.raised
           /\ cbValues' = out.cbc_values
           /\ cbZipKeys' = out.zip_keys
           /\ cbPc' = IF out.raised = "none" THEN "values" ELSE "raised"
    /\ UNCHANGED cbVariants
    /\ UNCHANGED <<bumperVars, fetchVars, roundTripVars, patchVars, convertVars,
                   reconvertVars, formatVars, selectorVars, zipKeysVars, indentVars, varRefVars, gitVars>>

\* CbcParser.generate_variants(cbc_files, selector_query) on the same list
GenerateVariants ==
    /\ cbPc = "values"
    /\ cbFiles' = <<construct_default_variants_cbc>> \o cbFiles
    /\ \E out \in {generate_cbc_values(cbFiles', 1, [n \in Range(CbcNames) |-> <<>>], <<>>)} :
           /\ cbRaised' = out.raised
           /\ cbValues' = out.cbc_values
           /\ cbZipKeys' = out.zip_keys
           /\ cbVariants' = IF out.raised = "none"
                            THEN generate_variants(out.cbc_values, out.zip_keys)
                            ELSE <<>>
           /\ cbPc' = IF out.raised = "none" THEN "variants" ELSE "raised"
    /\ UNCHANGED <<bumperVars, fetchVars, roundTripVars, patchVars, convertVars,
                   reconvertVars, formatVars, selectorVars, zipKeysVars, indentVars, varRefVars, gitVars>>

NextCbc == GenerateCbcValues \/ GenerateVariants

SpecCbc == InitCbc /\ [][NextCbc]_vars

\* the product of a list of numbers
RECURSIVE ProductOf(_)
ProductOf(sizes) == IF sizes = <<>> THEN 1 ELSE Head(sizes) * ProductOf(Tail(sizes))

\* C19: the number of variants returned by generate_variants is the product
\* of the sizes of the value lists of the free names and of the lengths of
\* the zipped lists of the zip groups.
C19_VariantCount ==
    cbPc = "variants" =>
        LET zipped == UNION { cbZipKeys[g] : g \in 1..Len(cbZipKeys) }
            free(key) == cbValues[key] # <<>> /\ key \notin zipped
            free_names == SelectSeq(CbcNames, free)
            zip_length(g) ==
                CHOOSE n \in { Len(cbValues[key]) : key \in cbZipKeys[g] } :
                    \A key \in cbZipKeys[g] : n <= Len(cbValues[key])
        IN  Len(cbVariants) =
                ProductOf([k \in 1..Len(free_names) |-> Len(cbValues[free_names[k]])])
                * ProductOf([g \in 1..Len(cbZipKeys) |-> zip_length(g)])

\* two zipped variables of two values each give two variants
C19_Witness ==
    /\ cbPc = "variants"
    /\ cbZipKeys = <<{"python", "zlib"}>>
    /\ Len(cbValues["python"]) = 2
    /\ Len(cbValues["zlib"]) = 2
    /\ Len(cbVariants) = 2

\* C20: the default variants are the first layer and the files follow from
\* left to right: the merged list of a variable is the list of the entries
\* that apply in the last file in which the variable has an applicable
\* entry; every name of every returned zip group is a key of the returned
\* values, and otherwise ZipKeysException is raised.
C20_Layering ==
    /\ cbPc = "values" =>
          /\ cbFiles[1] = construct_default_variants_cbc
          /\ \A variable \in Range(CbcNames) :
                LET has(i) == \E j \in DOMAIN cbFiles[i].vars[variable] :
                                  cbFiles[i].vars[variable][j]
                    layers == { i \in 1..Len(cbFiles) : has(i) }
                IN  IF layers = {} THEN cbValues[variable] = <<>>
                    ELSE LET last == CHOOSE i \in layers : \A k \in layers : k <= i
                             applies(value) == cbFiles[last].vars[variable][value.entry]
                         IN  cbValues[variable] =
                                 SelectSeq([j \in DOMAIN cbFiles[last].vars[variable] |->
                                               [file |-> last, entry |-> j]], applies)
          /\ \A g \in 1..Len(cbZipKeys) : \A key \in cbZipKeys[g] : cbValues[key] # <<>>
    /\ cbPc = "raised" => cbRaised = "ZipKeysException"

\* a variable with applicable entries in two files, and a zip group
C20_Witness ==
    /\ cbPc = "values"
    /\ Len(cbFiles) = 3
    /\ TRUE \in Range(cbFiles[2].vars["zlib"])
    /\ TRUE \in Range(cbFiles[3].vars["zlib"])
    /\ Len(cbValues["zlib"]) = 1
    /\ cbZipKeys # <<>>

(***************************************************************************)
(* parser/cbc_parser.py: CbcParser.get_zip_keys on one file.               *)
(*                                                                         *)
(* The zip keys of the file are up to MaxGroups groups, declared in this   *)
(* order; a group has two or three entries, each a name and whether its    *)
(* selector is absent or applies to the query.                             *)
(***************************************************************************)
MaxGroups == 2

InitZipKeys ==
    /\ zkGroups \in
          UNION { [1..n ->
                     [1..2 -> [value : {"python", "numpy", "zlib"}, applies : BOOLEAN]]
                     \cup { <<[value |-> "python", applies |-> p],
                              [value |-> "numpy", applies |-> q],
                              [value |-> "zlib", applies |-> r]>> :
                            p \in BOOLEAN, q \in BOOLEAN, r \in BOOLEAN }] :
                  n \in 0..MaxGroups }
    /\ zkPc = "new"
    /\ zkOut = <<>>
    /\ IdleBumper
    /\ IdleFetch
    /\ IdleRoundTrip
    /\ IdlePatch
    /\ IdleConvert
    /\ IdleReconvert
    /\ IdleFormat
    /\ IdleSelector
    /\ IdleCbc
    /\ IdleIndent
    /\ IdleVarRefs
    /\ IdleGit

\* CbcParser.get_zip_keys(query)
GetZipKeys ==
    /\ zkPc = "new"
    /\ zkOut' = get_zip_keys([zip_keys |-> zkGroups])
    /\ zkPc' = "called"
    /\ UNCHANGED zkGroups
    /\ UNCHANGED <<bumperVars, fetchVars, roundTripVars, patchVars, convertVars,
                   reconvertVars, formatVars, selectorVars, cbcVars, indentVars, varRefVars, gitVars>>

NextZipKeys == GetZipKeys

SpecZipKeys == InitZipKeys /\ [][NextZipKeys]_vars

\* C21: what get_zip_keys returns is, in the order of declaration, exactly
\* the groups with at least one applicable entry, each as the set of its
\* applicable names; a group with no applicable entry is left out.
C21_ZipKeysReturned ==
    (zkPc = "called" /\ zkOut.raised = "none") =>
        LET names(g) == { zkGroups[g][j].value :
                            j \in { j \in DOMAIN zkGroups[g] : zkGroups[g][j].applies } }
            kept == { g \in DOMAIN zkGroups : names(g) # {} }
        IN  /\ Len(zkOut.zip_keys) = Cardinality(kept)
            /\ \A g \in kept :
                  zkOut.zip_keys[Cardinality({ h \in kept : h <= g })] = names(g)

\* a group without an applicable entry is declared before a group of three
\* of which two apply
C21_Witness ==
    /\ zkPc = "called"
    /\ zkOut.raised = "none"
    /\ Len(zkGroups) = 2
    /\ \A j \in DOMAIN zkGroups[1] : ~zkGroups[1][j].applies
    /\ zkOut.zip_keys = <<{"python", "zlib"}>>

(***************************************************************************)
(* Claims about the operations of the VersionBumper (SpecBumper).          *)
(***************************************************************************)
\* C22: update_build_num(None) replaces an integer /build/number k with k+1
\* and adds /build/number = 0 when it is missing; update_build_num(n) with
\* n >= 0 sets it to n; a negative n, a missing /build section and a
\* non-integer current value when incrementing are rejected with
\* VersionBumperInvalidState.  Stated for the calls whose patch succeeds, of
\* every argument on the recipe the bumper holds.
C22_UpdateBuildNum ==
    \A build_num \in {NoneInt} \cup {SomeInt(n) : n \in (-1)..MaxBuildNum} :
        LET r == update_build_num(vbOptions, vbRecipe, BumperState, build_num, TRUE)
            current == vbRecipe.buildNum
            rejected == \/ build_num # NoneInt /\ build_num[1] < 0
                        \/ ~vbRecipe.hasBuild
                        \/ build_num = NoneInt /\ current.kind \notin {"missing", "int"}
        IN  IF rejected
            THEN r.err = VersionBumperInvalidState /\ r.recipe = vbRecipe
            ELSE /\ r.err = None
                 /\ r.recipe.buildNum =
                       [kind |-> "int",
                        n |-> IF build_num # NoneInt THEN build_num[1]
                              ELSE IF current.kind = "missing" THEN 0
                              ELSE current.n + 1]

\* C23: update_version(new) rejects an empty `new` and one equal to the
\* current version with VersionBumperInvalidState; otherwise, if the variable
\* `version` exists and /package/version uses it, only the variable is set
\* and the text of /package/version stays, else /package/version is written;
\* either way /package/version evaluates to `new` afterwards.  Stated for
\* the calls whose patch succeeds.
C23_UpdateVersion ==
    \A target_version \in {""} \cup Versions :
        LET r == update_version(vbOptions, vbRecipe, BumperState, target_version, TRUE)
        IN  IF target_version = "" \/ target_version = CurrentVersion(vbRecipe)
            THEN r.err = VersionBumperInvalidState /\ r.recipe = vbRecipe
            ELSE /\ r.err = None
                 /\ IF vbRecipe.versionVar # None /\ vbRecipe.version = Template("version")
                    THEN /\ r.recipe.versionVar = target_version
                         /\ r.recipe.version = vbRecipe.version
                    ELSE /\ r.recipe.version = target_version
                         /\ r.recipe.versionVar = vbRecipe.versionVar
                 /\ CurrentVersion(r.recipe) = target_version

\* C24: update_sha256 sets the hash variable and patches no sha256 field
\* when exactly one variable of the hash names is defined and /source/sha256
\* uses it; in every other case it patches the sha256 field of every source
\* whose fetcher is an HTTP fetcher to the digest of that fetcher.  Stated
\* for tables of resolved futures and patches that succeed, the fetcher of
\* the short cut being an HTTP fetcher.
C24_UpdateSha256 ==
    \A futures_tbl \in SeqsUpTo(Futures, Len(vbRecipe.url)) :
        (/\ Len(futures_tbl) >= 1
         /\ \A i \in 1..Len(futures_tbl) : futures_tbl[i].state = "done") =>
        LET r == update_sha256(vbOptions, vbRecipe, BumperState, futures_tbl, 0)
            one_hash_var == /\ Cardinality(DOMAIN vbRecipe.hashVars) = 1
                            /\ ~vbRecipe.srcIsList
                            /\ \E h \in DOMAIN vbRecipe.hashVars :
                                  vbRecipe.sha[1] = Template(h)
        IN  /\ r.err = None
            /\ IF one_hash_var
               THEN futures_tbl[1].kind = "http" =>
                       /\ \A h \in DOMAIN vbRecipe.hashVars :
                             r.recipe.hashVars[h] = futures_tbl[1].sha
                       /\ r.recipe.sha = vbRecipe.sha
               ELSE /\ r.recipe.hashVars = vbRecipe.hashVars
                    /\ \A i \in 1..Len(futures_tbl) :
                          r.recipe.sha[i] = IF futures_tbl[i].kind = "http"
                                            THEN futures_tbl[i].sha
                                            ELSE vbRecipe.sha[i]


(***************************************************************************)
(* Claims about the thread pool of the fetcher scope (SpecFetch).          *)
(***************************************************************************)
\* C25: on exit of the scope of fetch_all_artifacts_with_retry() or
\* fetch_all_corrected_artifacts_with_retry() the thread pool is shut down and
\* joined before any fetcher is cleaned up: as long as a submitted task has not
\* finished (its future is pending, so a worker may be running fetch() on the
\* fetcher), the scope has not been left and the temporary directory of the
\* task's fetcher, and of its corrected fetcher, has not been removed.
C25_PoolJoinedBeforeCleanup ==
    fsCfg.mode # "from_recipe" =>
        \A i \in SourceIds :
            fsFuture[i].state = "pending" =>
                /\ fsPhase \in {"yielded", "shutdown"}
                /\ fsFetcher[i].dir = "exists"
                /\ fsFetcher[CorrectedId(i)].dir # "removed"

\* C25 witness: the caller left the block while a task was outstanding; the task
\* ran to its end during the shutdown, its fetch() succeeded, and only then was
\* the directory of its fetcher removed.
C25_Witness ==
    /\ fsCfg.mode # "from_recipe"
    /\ fsPhase = "exited"
    /\ \E i \in fsOutstanding :
         /\ i \in fsFetchedOk
         /\ fsFuture[i].state = "done"
         /\ fsFetcher[i].dir = "removed"
\* C26: in generate_variants all value lists of the names of one zip group
\* have the same length, so that zipping drops no value: every value of every
\* zipped name is in at least one returned variant.
C26_ZipDropsNoValue ==
    cbPc = "variants" =>
        \A g \in 1..Len(cbZipKeys) :
            \A key \in cbZipKeys[g] :
                /\ \A other \in cbZipKeys[g] : Len(cbValues[key]) = Len(cbValues[other])
                /\ \A j \in 1..Len(cbValues[key]) :
                       \E c \in 1..Len(cbVariants) : cbVariants[c][key] = cbValues[key][j]
\* C30: generate_cbc_values and generate_variants do not modify the list of CBC
\* files passed by the caller: no call changes the elements of the list.
C30_CallerListUnchanged == [][cbFiles' = cbFiles]_vars
(***************************************************************************)
(* parser/v0_recipe_formatter.py: the loop of fix_excessive_indentation.   *)
(*                                                                         *)
(* One step is one call of _fix_excessive_indentation, the condition of    *)
(* the while loop.  The lines differ in their leading spaces only; an      *)
(* empty line is skipped by the pass.                                      *)
(***************************************************************************)
MaxPasses == 3
IndentLineChoices ==
    { [indent |-> n, kind |-> "other"] : n \in {0, 2, 6, 10} }
        \cup { [indent |-> 0, kind |-> "blank"] }

InitIndent ==
    /\ ixLines \in UNION { [1..n -> IndentLineChoices] : n \in 1..MaxLines }
    /\ ixOld = <<>>
    /\ ixWork = <<>>
    /\ ixGaveUp = FALSE
    /\ ixPasses = 0
    /\ ixPc = "loop"
    /\ IdleBumper
    /\ IdleFetch
    /\ IdleRoundTrip
    /\ IdlePatch
    /\ IdleConvert
    /\ IdleReconvert
    /\ IdleFormat
    /\ IdleSelector
    /\ IdleCbc
    /\ IdleZipKeys
    /\ IdleVarRefs
    /\ IdleGit

FixPass_KeepWork ==
    /\ ixPc = "loop"
    /\ \E pass \in {fix_excessive_indentation_pass(ixLines, ixLines, 1, <<>>, -2)} :
           /\ ixLines' = pass.work
           /\ ixWork' = pass.work
           /\ ixGaveUp' = pass.gave_up
           /\ ixPc' = IF pass.changed THEN "loop" ELSE "done"
    /\ ixOld' = ixLines
    /\ ixPasses' = IF ixPasses < MaxPasses THEN ixPasses + 1 ELSE ixPasses
    /\ UNCHANGED <<bumperVars, fetchVars, roundTripVars, patchVars, convertVars,
                   reconvertVars, formatVars, selectorVars, cbcVars, zipKeysVars, varRefVars, gitVars>>

\* fix_excessive_indentation: `while self._fix_excessive_indentation(): pass`,
\* one evaluation of the condition
FixPass ==
    /\ ixPc = "loop"
    /\ \E pass \in {fix_excessive_indentation_pass(ixLines, ixLines, 1, <<>>, -2)} :
           /\ ixLines' = pass.lines
           /\ ixWork' = pass.work
           /\ ixGaveUp' = pass.gave_up
           /\ ixPc' = IF pass.changed THEN "loop" ELSE "done"
    /\ ixOld' = ixLines
    /\ ixPasses' = IF ixPasses < MaxPasses THEN ixPasses + 1 ELSE ixPasses
    /\ UNCHANGED <<bumperVars, fetchVars, roundTripVars, patchVars, convertVars,
                   reconvertVars, formatVars, selectorVars, cbcVars, zipKeysVars, varRefVars, gitVars>>

NextIndent == FixPass

\* The loop is sequential code: as long as the condition can be evaluated, it is.
SpecIndent == InitIndent /\ [][NextIndent]_vars /\ WF_vars(FixPass)

\* What C27 says of the pass that was made last.
PassAsStated ==
    ixOld # <<>> =>
        /\ Len(ixLines) = Len(ixOld)
        /\ (ixPc = "loop" <=> ixLines # ixOld)
        /\ \A idx \in 1..Len(ixLines) :
               ixLines[idx] # ixOld[idx] =>
                   /\ ixLines[idx].kind = ixOld[idx].kind
                   /\ ixLines[idx].indent < ixOld[idx].indent
                   /\ \E parent \in {0} \cup { ixOld[k].indent : k \in 1..(idx - 1) } :
                          /\ parent < ixOld[idx].indent
                          /\ ixLines[idx].indent = parent + 2
        /\ (ixGaveUp => ixLines = ixOld /\ ixPc = "done")

\* C27: fix_excessive_indentation terminates on every input: each pass either
\* changes at least one line, by clamping an over-indented line to its
\* parent's indentation plus 2, or ends the iteration, and a pass that gives
\* up because no parent is on the stack keeps the lines as they were at its
\* start.
C27_IndentationTerminates == <>(ixPc = "done") /\ []PassAsStated

\* C27 witness: two passes clamped lines and the third found nothing to change,
\* which ended the loop.
C27_Witness ==
    /\ ixPc = "done"
    /\ ixPasses >= 3
    /\ ~ixGaveUp
    /\ ixLines = ixOld
(***************************************************************************)
(* parser/recipe_reader.py: RecipeReader.get_variable_references.          *)
(*                                                                         *)
(* The tree is the list of its leaves in the order of the traversal, and   *)
(* the path of a leaf is its place in that list.  The value of a leaf is   *)
(* a number or a string; a string is one or two segments, each a word, a   *)
(* V0 expression {{ word }} or a V1 expression ${{ word }}.                *)
(***************************************************************************)
MaxLeaves == 2

VarNames == {"version", "my_version"}

Segments == [kind : {"word", "{{", "${{"}, name : VarNames]

LeafValues ==
    { [str |-> FALSE, segs |-> <<>>] }
        \cup { [str |-> TRUE, segs |-> segs] :
                  segs \in UNION { [1..n -> Segments] : n \in 1..2 } }

\* var is a part of the word: the word is var, or var with something before it
part_of(var, word) == word \in {var, "my_" \o var}

\* var_re.search(value) for the pattern of _init_re: "{{", then any
\* characters, var, any characters, "}}".  The V1 pattern asks for "$" before
\* the braces that open.
var_re_search_value(schema_version, var, value) ==
    LET segs == value.segs
        opens(k) == IF schema_version = "V0" THEN segs[k].kind \in {"{{", "${{"}
                    ELSE segs[k].kind = "${{"
        closes(k) == segs[k].kind \in {"{{", "${{"}
    IN  \E k1 \in 1..Len(segs) : \E k2 \in k1..Len(segs) : \E k3 \in k2..Len(segs) :
            /\ opens(k1)
            /\ part_of(var, segs[k2].name)
            /\ closes(k3)

\* dedupe_and_preserve_order(l): list(dict.fromkeys(l))
dedupe_and_preserve_order(l) ==
    LET first(i) == \A k \in 1..(i - 1) : l[k] # l[i]
        keep == { i \in 1..Len(l) : first(i) }
        Nth(n) == CHOOSE i \in keep : Cardinality({ k \in keep : k <= i }) = n
    IN  [n \in 1..Cardinality(keep) |-> l[Nth(n)]]

\* get_variable_references(var)
get_variable_references(schema_version, vars_tbl, leaves, var) ==
    IF var \notin vars_tbl THEN <<>>
    ELSE LET collect(path) == /\ leaves[path].str
                              /\ var_re_search_value(schema_version, var, leaves[path])
         IN  dedupe_and_preserve_order(SelectSeq([i \in 1..Len(leaves) |-> i], collect))

InitVarRefs ==
    /\ vrSchema \in {"V0", "V1"}
    /\ vrVarsTbl \in {{"version"}, VarNames}
    /\ vrLeaves \in UNION { [1..n -> LeafValues] : n \in 1..MaxLeaves }
    /\ vrVar = ""
    /\ vrOut = <<>>
    /\ vrPc = "new"
    /\ IdleBumper
    /\ IdleFetch
    /\ IdleRoundTrip
    /\ IdlePatch
    /\ IdleConvert
    /\ IdleReconvert
    /\ IdleFormat
    /\ IdleSelector
    /\ IdleCbc
    /\ IdleZipKeys
    /\ IdleIndent
    /\ IdleGit

\* a call of get_variable_references(var)
GetVariableReferences ==
    /\ vrPc = "new"
    /\ \E var \in VarNames :
           /\ vrVar' = var
           /\ vrOut' = get_variable_references(vrSchema, vrVarsTbl, vrLeaves, var)
    /\ vrPc' = "called"
    /\ UNCHANGED <<vrSchema, vrVarsTbl, vrLeaves>>
    /\ UNCHANGED <<bumperVars, fetchVars, roundTripVars, patchVars, convertVars,
                   reconvertVars, formatVars, selectorVars, cbcVars, zipKeysVars,
                   indentVars, gitVars>>

NextVarRefs == GetVariableReferences

SpecVarRefs == InitVarRefs /\ [][NextVarRefs]_vars

\* the leaf at the path is a string that uses the variable inside a template
\* expression of the recipe's schema
UsesVariable(schema_version, var, value) ==
    /\ value.str
    /\ \E k \in 1..Len(value.segs) :
           /\ value.segs[k].name = var
           /\ value.segs[k].kind \in
                  (IF schema_version = "V0" THEN {"{{", "${{"} ELSE {"${{"})

\* C28: get_variable_references(name), for a variable of the recipe, returns
\* exactly the paths of the string leaves that use the variable inside a
\* template expression ({{ ... }} in v0, ${{ ... }} in v1), each path once, in
\* first-appearance order.
C28_ExactReferences ==
    (vrPc = "called" /\ vrVar \in vrVarsTbl) =>
        LET uses(path) == UsesVariable(vrSchema, vrVar, vrLeaves[path])
        IN  vrOut = SelectSeq([i \in 1..Len(vrLeaves) |-> i], uses)
(***************************************************************************)
(* fetcher/git_artifact_fetcher.py: GitArtifactFetcher.fetch.              *)
(*                                                                         *)
(* A fetcher is built with a branch, a tag and a rev, each of them         *)
(* optional.  The clone and the checkout succeed or end with GitError.     *)
(***************************************************************************)
GitTargets == [branch : {None, "main"}, tag : {None, "v1.0"}, rev : {None, "abc123"}]

NoCheckout == [ran |-> FALSE, ref |-> None]

\* _resolve_checkout_target()
resolve_checkout_target(git_target) ==
    IF git_target.tag # None THEN git_target.tag
    ELSE IF git_target.rev # None THEN git_target.rev
    ELSE IF git_target.branch # None THEN git_target.branch
    ELSE None

InitGit ==
    /\ gtTarget \in GitTargets
    /\ gtRepoTags \in SUBSET {"v1.0", "v0.9"}
    /\ gtGitTags = {}
    /\ gtCheckout = NoCheckout
    /\ gtFetched = FALSE
    /\ gtPc = "new"
    /\ IdleBumper
    /\ IdleFetch
    /\ IdleRoundTrip
    /\ IdlePatch
    /\ IdleConvert
    /\ IdleReconvert
    /\ IdleFormat
    /\ IdleSelector
    /\ IdleCbc
    /\ IdleZipKeys
    /\ IdleIndent
    /\ IdleVarRefs

\* fetch(): the clone, the tags, and `repo.git.checkout(self._git_target.branch,
\* force=True)` when a target was resolved
GitFetch ==
    /\ gtPc = "new"
    /\ \E clone_ok \in BOOLEAN, checkout_ok \in BOOLEAN :
         IF ~clone_ok
         THEN /\ gtPc' = FetchError
              /\ UNCHANGED <<gtGitTags, gtCheckout, gtFetched>>
         ELSE /\ gtGitTags' = gtRepoTags
              /\ IF resolve_checkout_target(gtTarget) # None
                 THEN /\ gtCheckout' = [ran |-> TRUE, ref |-> gtTarget.branch]
                      /\ gtFetched' = checkout_ok
                      /\ gtPc' = IF checkout_ok THEN "returned" ELSE FetchError
                 ELSE /\ gtCheckout' = NoCheckout
                      /\ gtFetched' = TRUE
                      /\ gtPc' = "returned"
    /\ UNCHANGED <<gtTarget, gtRepoTags>>
    /\ UNCHANGED <<bumperVars, fetchVars, roundTripVars, patchVars, convertVars,
                   reconvertVars, formatVars, selectorVars, cbcVars, zipKeysVars,
                   indentVars, varRefVars>>

NextGit == GitFetch

SpecGit == InitGit /\ [][NextGit]_vars

\* C29: GitArtifactFetcher.fetch() checks out the target chosen by
\* _resolve_checkout_target (the tag if one is given, else the rev, else the
\* branch) and performs no checkout when none of the three is given.
C29_ChecksOutResolvedTarget ==
    gtPc = "returned" =>
        LET stated == IF gtTarget.tag # None THEN gtTarget.tag
                      ELSE IF gtTarget.rev # None THEN gtTarget.rev
                      ELSE gtTarget.branch
        IN  IF stated = None THEN ~gtCheckout.ran
            ELSE gtCheckout.ran /\ gtCheckout.ref = stated

====
